---- MODULE Spec2Model ----
(***************************************************************************)
(* Multi-tenant campaign dispatch engine of listmonk                       *)
(* (internal/manager: TenantManager, tenantInstanceManager, tenantPipe).   *)
(*                                                                         *)
(* Every goroutine of the engine is a process with a program counter; the  *)
(* steps between two program counters are the atomic operations of the Go  *)
(* code (one atomic Load / Store / Add, one channel operation, one Store   *)
(* or Messenger call).  Purely local steps are merged with the shared      *)
(* access that follows them.                                               *)
(***************************************************************************)
EXTENDS Integers, Sequences, FiniteSets, TLC

\* ---------------------------------------------------------------- bounds
NumTenants == 2        \* tenant ids 1..NumTenants known to the Store
NumCampaigns == 2      \* campaign ids 1..NumCampaigns per tenant
NumSubs == 2           \* subscribers of a campaign under Spec
CloseSubs == 3         \* subscribers of a campaign under SpecClose
RunSubs == 3           \* subscribers of a campaign under SpecRun
RunBatch == 2          \* batch size under SpecRun
MaxTime == 4           \* seconds the clock of SpecWindow runs
WindowRate == 1        \* SlidingWindowRate under SpecWindow
WindowDuration == 2    \* SlidingWindowDuration under SpecWindow, in seconds
MaxPipes == 2          \* tenantPipe objects ever allocated
MaxWorkers == 2        \* largest TenantMaxConcurrency
ArgMax == 2            \* largest argument of a Store call through the adapter
MaxHalves == 3         \* largest tenant setting, in halves (3 is 1.5)
RateCeiling == 2       \* MessageRate of the rate-limit scenario
NextPipesCap == 1      \* stands for the 1000 slots of nextPipes

Tenants == 1..NumTenants
Campaigns == 1..NumCampaigns
Pipes == 1..MaxPipes
Workers == 1..MaxWorkers

\* models.CampaignStatus*
StatusDraft == "draft"
StatusRunning == "running"
StatusPaused == "paused"
StatusFinished == "finished"
StatusCancelled == "cancelled"

NoMsg == [pipe |-> 0, sub |-> 0]

\* no Store call has gone through the adapter yet
NoCall == [op |-> "none", tenant |-> 0, args |-> <<>>]

VARIABLES
    \* ---- environment switches, fixed by Init
    env,            \* what the run admits: [fail : tenants whose Messenger may reject,
                    \* stop : tenants StopTenantCampaign is called for, storeErr,
                    \* renderErr, close, pause : BOOLEAN], and the Store's contents:
                    \* [ids : tenants with work, camps : running campaigns of a
                    \* tenant, subs : subscribers per campaign, settings]
    gcfg,           \* Config handed to NewTenantManager
    \* ---- TenantManager
    shutdownCh,     \* TRUE once closed
    tmMut,          \* tenantManagersMut: "free" or the writer holding it
    tenantManagers, \* keys of the instance registry
    activeTenants,  \* keys of activeTenants
    managePc,       \* manageTenants goroutine
    discIds,        \* tenantIDs local of discoverActiveTenants
    loadFailed,     \* tenants whose createTenantInstance failed in the current pass
    tmScanPc,       \* scanActiveTenants goroutine
    closePc,        \* Close() caller
    closeTodo,      \* instances Close() has still to stop
    \* ---- tenantInstanceManager, per tenant
    active, stopCh, chansClosed, stopPc,
    messengers,     \* the campaigns' messenger is registered
    cfg,            \* TenantConfig snapshot
    runPc, runPipe, runSubs,
    scanPc, scanTodo, scanTmp, scanIds, scanCounts, scanNew,
    wpc, wmsg, numMsg,
    campMsgQ, nextPipes,
    pipes,          \* registry: campaign id -> pipe object (0: none)
    \* ---- tenantPipe objects
    nPipes, pTenant, pCamp, wg, sent, lastID, errors, stopped, withErrors,
    cpc,            \* the goroutine of newTenantPipe: wg.Wait(); cleanup()
    \* ---- Store (per tenant, per campaign)
    campStatus, campSent, campLastID, subCursor,
    \* ---- caller of StopTenantCampaign
    apiPc, apiPipe, apiTenant,
    \* ---- history
    accepted,       \* per pipe: messages the Messenger accepted
    failed,         \* per pipe: delivery failures
    statusLog,      \* per pipe: statuses cleanup wrote
    notifLog,       \* per pipe: statuses the notification sink received
    manual,         \* per pipe: "no", or StopCampaign flagged it "early" (wg > 0)
                    \* or "late" (wg = 0)
    batches,        \* per pipe: sizes of the non-empty batches it fetched
    \* ---- sliding window
    now,            \* the clock, in seconds
    slidingStart,   \* per tenant: start of the current window
    slidingCount,   \* per tenant: messages counted in the current window
    runWake,        \* per tenant: when the batch loop's time.Sleep is over
    pushLog,        \* per tenant: times of the pushes made with the window on
    \* ---- the single-tenant Manager and its one campaign
    mRunPc,         \* Manager.Run
    mScanPc,        \* Manager.scanCampaigns
    mWpc,           \* Manager.worker, per worker
    mClosePc,       \* caller of Manager.Close
    mNextPipes,     \* pipes queued in m.nextPipes
    mNextClosed,    \* m.nextPipes is closed
    mMsgQClosed,    \* m.msgQ is closed
    mCampMsgQ,      \* messages queued in m.campMsgQ
    mPipe,          \* the campaign's pipe: "none", "live" (registered) or "gone"
    mWg,            \* the pipe's wait-group
    mLeft,          \* subscribers of the campaign not yet fetched
    mBatch,         \* messages of the fetched batch not yet pushed
    stopCalls,      \* history: calls of stop() on the tenant's current instance, capped at 2
    sigCloses,      \* history: executions of close(stopCh) on it, capped at 2
    qCloses,        \* history: executions of the three queues' close on it, capped at 2
    refetchFailed,  \* history: per pipe, cleanup's GetTenantCampaign returned an error
    registered,     \* history: a TenantManager.AddMessenger call has returned nil
    streak,         \* history: per pipe, delivery failures since the last accepted send
    slice,          \* history: per worker, Messenger calls since its last rate sleep
    drained,        \* history: per pipe, the Store has returned an empty batch for it
    notifErr,       \* history: per pipe, fnNotify returned an error to its cleanup
    \* ---- tenantStoreAdapter
    legacyCall,     \* the Store call the single-tenant Manager made last, or NoCall
    tenantCall      \* the TenantStore call the adapter made for it, or NoCall

tmVars == <<shutdownCh, tmMut, tenantManagers, activeTenants, managePc, discIds,
            tmScanPc, closePc, closeTodo>>
instVars == <<active, stopCh, chansClosed, stopPc, messengers, cfg>>
runVars == <<runPc, runPipe, runSubs>>
scanVars == <<scanPc, scanTodo, scanTmp, scanIds, scanCounts, scanNew>>
workerVars == <<wpc, wmsg, numMsg>>
queueVars == <<campMsgQ, nextPipes>>
pipeVars == <<nPipes, pTenant, pCamp, wg, sent, lastID, errors, stopped, withErrors, cpc>>
storeVars == <<campStatus, campSent, campLastID, subCursor>>
apiVars == <<apiPc, apiPipe, apiTenant>>
histVars == <<accepted, failed, statusLog, notifLog, manual, batches>>
slideVars == <<now, slidingStart, slidingCount, runWake, pushLog>>
stopHist == <<stopCalls, sigCloses, qCloses>>
obsVars == <<registered, streak, slice, drained, notifErr, stopHist, refetchFailed>>
adapterVars == <<legacyCall, tenantCall>>
mgrVars == <<mRunPc, mScanPc, mWpc, mClosePc, mNextPipes, mNextClosed, mMsgQClosed,
             mCampMsgQ, mPipe, mWg, mLeft, mBatch>>

vars == <<env, gcfg, loadFailed, tmVars, instVars, runVars, scanVars, workerVars, queueVars,
          pipes, pipeVars, storeVars, apiVars, histVars, slideVars, mgrVars, obsVars,
          adapterVars>>

\* ------------------------------------------------------------ configuration

\* NewTenantManager: the defaults applied to the Config it is given.
NewTenantManager(c) ==
    [c EXCEPT !.BatchSize = IF c.BatchSize < 1 THEN 1000 ELSE c.BatchSize,
              !.Concurrency = IF c.Concurrency < 1 THEN 1 ELSE c.Concurrency,
              !.MessageRate = IF c.MessageRate < 1 THEN 1 ELSE c.MessageRate]

\* A tenant's settings row.  The limits are JSON numbers (float64), written here
\* in halves: 1 is 0.5, 2 is 1, 3 is 1.5; 0 stands for a key that is absent (or
\* not positive).  from_email is a string or Absent.
Absent == "absent"

NoSettings ==
    [max_batch_size |-> 0, max_concurrency |-> 0, message_rate |-> 0, max_send_errors |-> 0,
     from_email |-> Absent]

\* Go's int(x) of a float64 x >= 0 given in halves: the fraction is dropped
ToInt(h) == h \div 2

\* loadTenantConfig: int() of the tenant's own limit when present and positive,
\* else the global one.  The embedded Config keeps the global values.
loadTenantConfig(g, st) ==
    [Concurrency |-> g.Concurrency,
     MessageRate |-> g.MessageRate,
     ScanCampaigns |-> g.ScanCampaigns,
     SlidingWindow |-> g.SlidingWindow,
     SlidingWindowRate |-> g.SlidingWindowRate,
     SlidingWindowDuration |-> g.SlidingWindowDuration,
     TenantFromEmail |-> IF st.from_email # Absent THEN st.from_email ELSE g.FromEmail,
     TenantMaxBatchSize |->
         IF st.max_batch_size > 0 THEN ToInt(st.max_batch_size) ELSE g.BatchSize,
     TenantMaxConcurrency |->
         IF st.max_concurrency > 0 THEN ToInt(st.max_concurrency) ELSE g.Concurrency,
     TenantMessageRate |->
         IF st.message_rate > 0 THEN ToInt(st.message_rate) ELSE g.MessageRate,
     TenantMaxSendErrors |->
         IF st.max_send_errors > 0 THEN ToInt(st.max_send_errors) ELSE g.MaxSendErrors]

NoConfig == loadTenantConfig([Concurrency |-> 0, MessageRate |-> 0, ScanCampaigns |-> FALSE,
                              BatchSize |-> 0, MaxSendErrors |-> 0, SlidingWindow |-> FALSE,
                              SlidingWindowRate |-> 0, SlidingWindowDuration |-> 0,
                              FromEmail |-> ""],
                             NoSettings)

\* capacity of campMsgQ (and msgQ) set by createTenantInstance
CampMsgQCap(t) == cfg[t].Concurrency * cfg[t].MessageRate * 2

\* getActiveTenantIDs: the tenants a discovery pass sees.
getActiveTenantIDs == {1}

\* ------------------------------------------------------------------- Init

InitState(e, g) ==
    /\ env = e
    /\ gcfg = NewTenantManager(g)
    /\ shutdownCh = FALSE
    /\ tmMut = "free"
    /\ tenantManagers = {}
    /\ activeTenants = {}
    /\ managePc = "none"
    /\ discIds = {}
    /\ loadFailed = {}
    /\ tmScanPc = "none"
    /\ closePc = "idle"
    /\ closeTodo = {}
    /\ active = [t \in Tenants |-> FALSE]
    /\ stopCh = [t \in Tenants |-> FALSE]
    /\ chansClosed = [t \in Tenants |-> FALSE]
    /\ stopPc = [t \in Tenants |-> "idle"]
    /\ messengers = [t \in Tenants |-> FALSE]
    /\ cfg = [t \in Tenants |-> NoConfig]
    /\ runPc = [t \in Tenants |-> "none"]
    /\ runPipe = [t \in Tenants |-> 0]
    /\ runSubs = [t \in Tenants |-> <<>>]
    /\ scanPc = [t \in Tenants |-> "none"]
    /\ scanTodo = [t \in Tenants |-> {}]
    /\ scanTmp = [t \in Tenants |-> [pipe |-> 0, n |-> 0]]
    /\ scanIds = [t \in Tenants |-> {}]
    /\ scanCounts = [t \in Tenants |-> [c \in Campaigns |-> 0]]
    /\ scanNew = [t \in Tenants |-> {}]
    /\ wpc = [t \in Tenants |-> [w \in Workers |-> "none"]]
    /\ wmsg = [t \in Tenants |-> [w \in Workers |-> NoMsg]]
    /\ numMsg = [t \in Tenants |-> [w \in Workers |-> 0]]
    /\ campMsgQ = [t \in Tenants |-> <<>>]
    /\ nextPipes = [t \in Tenants |-> <<>>]
    /\ pipes = [t \in Tenants |-> [c \in Campaigns |-> 0]]
    /\ nPipes = 0
    /\ pTenant = [p \in Pipes |-> 0]
    /\ pCamp = [p \in Pipes |-> 0]
    /\ wg = [p \in Pipes |-> 0]
    /\ sent = [p \in Pipes |-> 0]
    /\ lastID = [p \in Pipes |-> 0]
    /\ errors = [p \in Pipes |-> 0]
    /\ stopped = [p \in Pipes |-> FALSE]
    /\ withErrors = [p \in Pipes |-> FALSE]
    /\ cpc = [p \in Pipes |-> "none"]
    /\ campStatus = [t \in Tenants |-> [c \in Campaigns |->
                        IF c \in e.camps THEN StatusRunning ELSE StatusDraft]]
    /\ campSent = [t \in Tenants |-> [c \in Campaigns |-> 0]]
    /\ campLastID = [t \in Tenants |-> [c \in Campaigns |-> 0]]
    /\ subCursor = [t \in Tenants |-> [c \in Campaigns |-> 0]]
    /\ apiPc = "idle"
    /\ apiPipe = 0
    /\ apiTenant = 0
    /\ accepted = [p \in Pipes |-> 0]
    /\ failed = [p \in Pipes |-> 0]
    /\ statusLog = [p \in Pipes |-> <<>>]
    /\ notifLog = [p \in Pipes |-> <<>>]
    /\ manual = [p \in Pipes |-> "no"]
    /\ batches = [p \in Pipes |-> <<>>]
    /\ now = 0
    /\ slidingStart = [t \in Tenants |-> 0]
    /\ slidingCount = [t \in Tenants |-> 0]
    /\ runWake = [t \in Tenants |-> 0]
    /\ pushLog = [t \in Tenants |-> <<>>]
    /\ mRunPc = "none"
    /\ mScanPc = "none"
    /\ mWpc = [w \in Workers |-> "none"]
    /\ mClosePc = "idle"
    /\ mNextPipes = 0
    /\ mNextClosed = FALSE
    /\ mMsgQClosed = FALSE
    /\ mCampMsgQ = 0
    /\ mPipe = "none"
    /\ mWg = 0
    /\ mLeft = e.subs
    /\ mBatch = 0
    /\ registered = FALSE
    /\ streak = [p \in Pipes |-> 0]
    /\ slice = [t \in Tenants |-> [w \in Workers |-> 0]]
    /\ drained = [p \in Pipes |-> FALSE]
    /\ notifErr = [p \in Pipes |-> FALSE]
    /\ refetchFailed = [p \in Pipes |-> FALSE]
    /\ stopCalls = [t \in Tenants |-> 0]
    /\ sigCloses = [t \in Tenants |-> 0]
    /\ qCloses = [t \in Tenants |-> 0]
    /\ legacyCall = NoCall
    /\ tenantCall = NoCall

\* ------------------------------------------------------------ TenantManager

\* every goroutine counted in tim.wg has returned
ThreadsDone(t) ==
    /\ runPc[t] \in {"none", "done"}
    /\ scanPc[t] \in {"none", "done"}
    /\ \A w \in Workers : wpc[t][w] \in {"none", "exit"}

\* TenantManager.Run: starts manageTenants and, with ScanCampaigns, scanActiveTenants
TMRun ==
    /\ managePc = "none"
    /\ managePc' = "query"
    /\ tmScanPc' = IF gcfg.ScanCampaigns THEN "loop" ELSE "none"
    /\ UNCHANGED <<env, gcfg, obsVars, adapterVars, mgrVars, loadFailed, slideVars,
                   shutdownCh, tmMut, tenantManagers, activeTenants, discIds, closePc,
                   closeTodo, instVars, runVars, scanVars, workerVars, queueVars, pipes,
                   pipeVars, storeVars, apiVars, histVars>>

\* scanActiveTenants: its tick only calls the empty triggerCampaignScan
TMScanExit ==
    /\ tmScanPc = "loop"
    /\ shutdownCh
    /\ tmScanPc' = "done"
    /\ UNCHANGED <<env, gcfg, obsVars, adapterVars, mgrVars, loadFailed, slideVars,
                   shutdownCh, tmMut, tenantManagers, activeTenants, managePc, discIds,
                   closePc, closeTodo, instVars, runVars, scanVars, workerVars, queueVars,
                   pipes, pipeVars, storeVars, apiVars, histVars>>

\* discoverActiveTenants, first half: tenantIDs := getActiveTenantIDs()
DiscoverQuery ==
    /\ managePc = "query"
    /\ discIds' = getActiveTenantIDs
    /\ managePc' = "lock"
    /\ UNCHANGED <<env, gcfg, obsVars, adapterVars, mgrVars, loadFailed, slideVars,
                   shutdownCh, tmMut, tenantManagers, activeTenants, tmScanPc, closePc,
                   closeTodo, instVars, runVars, scanVars, workerVars, queueVars, pipes,
                   pipeVars, storeVars, apiVars, histVars>>

\* createTenantInstance for every tenant of `made`: a fresh instance, run() started
createTenantInstance(made) ==
    /\ cfg' = [t \in Tenants |->
                 IF t \in made THEN loadTenantConfig(gcfg, env.settings[t]) ELSE cfg[t]]
    /\ active' = [t \in Tenants |-> IF t \in made THEN TRUE ELSE active[t]]
    /\ stopCh' = [t \in Tenants |-> IF t \in made THEN FALSE ELSE stopCh[t]]
    /\ chansClosed' = [t \in Tenants |-> IF t \in made THEN FALSE ELSE chansClosed[t]]
    /\ messengers' = [t \in Tenants |-> IF t \in made THEN FALSE ELSE messengers[t]]
    /\ runPc' = [t \in Tenants |-> IF t \in made THEN "start" ELSE runPc[t]]
    /\ stopPc' = [t \in Tenants |-> IF t \in made THEN "idle" ELSE stopPc[t]]
    /\ slidingStart' = [t \in Tenants |-> IF t \in made THEN now ELSE slidingStart[t]]
    /\ tenantManagers' = tenantManagers \cup made
    /\ stopCalls' = [t \in Tenants |-> IF t \in made THEN 0 ELSE stopCalls[t]]
    /\ sigCloses' = [t \in Tenants |-> IF t \in made THEN 0 ELSE sigCloses[t]]
    /\ qCloses' = [t \in Tenants |-> IF t \in made THEN 0 ELSE qCloses[t]]

\* discoverActiveTenants, first half, over a tenants table with several active
\* tenants: the ids of the tenants that have work
DiscoverTenants ==
    /\ managePc = "query"
    /\ discIds' = env.ids
    /\ managePc' = "lock"
    /\ UNCHANGED <<env, gcfg, obsVars, adapterVars, mgrVars, loadFailed, slideVars,
                   shutdownCh, tmMut, tenantManagers, activeTenants, tmScanPc, closePc,
                   closeTodo, instVars, runVars, scanVars, workerVars, queueVars, pipes,
                   pipeVars, storeVars, apiVars, histVars>>

\* discoverActiveTenants, second half, under activeTenantsMut and tenantManagersMut:
\* an instance for every tenant not yet active (skipped when its settings cannot
\* be loaded).  No active tenant is missing from the ids of this model's passes,
\* so the removal loop finds nothing to tear down.
DiscoverApply ==
    /\ managePc = "lock"
    /\ tmMut = "free"
    /\ apiPc = "idle"
    /\ activeTenants \subseteq discIds
    /\ \E made \in SUBSET (discIds \ activeTenants) :
          /\ env.storeErr \/ made = discIds \ activeTenants
          /\ createTenantInstance(made)
          /\ activeTenants' = activeTenants \cup made
    /\ managePc' = "loop"
    /\ UNCHANGED <<env, gcfg, refetchFailed, registered, streak, slice, drained, notifErr,
                   adapterVars, mgrVars, loadFailed, now, slidingCount, runWake, pushLog,
                   shutdownCh, tmMut, discIds, tmScanPc, closePc, closeTodo, runPipe,
                   runSubs, scanVars, workerVars, queueVars, pipes, pipeVars, storeVars,
                   apiVars, histVars>>

\* tenantInstanceManager.stop up to tim.wg.Wait(): returns at once when not active
\* one more, counted up to 2
Counted(n) == IF n < 2 THEN n + 1 ELSE 2

\* stop() without its test of tim.active
stopBeginUnchecked(t) ==
    /\ stopCalls' = [stopCalls EXCEPT ![t] = Counted(@)]
    /\ active' = [active EXCEPT ![t] = FALSE]
    /\ stopCh' = [stopCh EXCEPT ![t] = TRUE]
    /\ sigCloses' = [sigCloses EXCEPT ![t] = Counted(@)]
    /\ stopPc' = [stopPc EXCEPT ![t] = "wait"]

stopBegin(t) ==
    /\ stopCalls' = [stopCalls EXCEPT ![t] = Counted(@)]
    /\ IF ~active[t]
       THEN UNCHANGED <<active, stopCh, stopPc, sigCloses>>
       ELSE /\ active' = [active EXCEPT ![t] = FALSE]
            /\ stopCh' = [stopCh EXCEPT ![t] = TRUE]
            /\ sigCloses' = [sigCloses EXCEPT ![t] = Counted(@)]
            /\ stopPc' = [stopPc EXCEPT ![t] = "wait"]

\* tenantInstanceManager.stop after tim.wg.Wait(): closes nextPipes, campMsgQ, msgQ
stopWait(t) ==
    /\ stopPc[t] = "wait"
    /\ ThreadsDone(t)
    /\ chansClosed' = [chansClosed EXCEPT ![t] = TRUE]
    /\ qCloses' = [qCloses EXCEPT ![t] = Counted(@)]
    /\ stopPc' = [stopPc EXCEPT ![t] = "done"]

\* discoverActiveTenants over a tenants table whose active tenants change from
\* pass to pass: the ids this pass sees
DiscoverVary ==
    /\ managePc = "query"
    /\ discIds' \in SUBSET Tenants
    /\ loadFailed' = {}
    /\ managePc' = "lock"
    /\ UNCHANGED <<env, gcfg, obsVars, adapterVars, mgrVars, slideVars, shutdownCh, tmMut,
                   tenantManagers, activeTenants, tmScanPc, closePc, closeTodo, instVars,
                   runVars, scanVars, workerVars, queueVars, pipes, pipeVars, storeVars,
                   apiVars, histVars>>

\* discoverActiveTenants: both locks taken, then the loop that adds an instance
\* for every reported tenant that is not active; a tenant whose config cannot be
\* loaded is skipped
DiscoverAdd ==
    /\ managePc = "lock"
    /\ tmMut = "free"
    /\ apiPc = "idle"
    /\ tmMut' = "discover"
    /\ \E made \in SUBSET (discIds \ activeTenants) :
          /\ env.storeErr \/ made = discIds \ activeTenants
          /\ createTenantInstance(made)
          /\ activeTenants' = activeTenants \cup made
          /\ loadFailed' = (discIds \ activeTenants) \ made
    /\ managePc' = "remove"
    /\ UNCHANGED <<env, gcfg, refetchFailed, registered, streak, slice, drained, notifErr,
                   adapterVars, mgrVars, now, slidingCount, runWake, pushLog, shutdownCh,
                   discIds, tmScanPc, closePc, closeTodo, runPipe, runSubs, scanVars,
                   workerVars, queueVars, pipes, pipeVars, storeVars, apiVars, histVars>>

\* the tenants the removal loop of discoverActiveTenants has still to tear down:
\* active, not reported, and with an instance in the registry
ToRemove == (activeTenants \ discIds) \cap tenantManagers

\* the removal loop forgets to delete the tenant from activeTenants
DiscoverRemoveKeepsActive(t) ==
    /\ tenantManagers' = tenantManagers \ {t}
    /\ UNCHANGED activeTenants

\* discoverActiveTenants: delete(tm.tenantManagers, id); delete(tm.activeTenants, id)
DiscoverRemove(t) ==
    /\ tenantManagers' = tenantManagers \ {t}
    /\ activeTenants' = activeTenants \ {t}

\* discoverActiveTenants, removal loop: t.stop() on an instance that is no longer
\* reported; an instance that was stopped before is removed at once
DiscoverStop(t) ==
    /\ managePc = "remove"
    /\ t \in ToRemove
    /\ \A u \in Tenants : stopPc[u] # "wait"
    /\ stopBegin(t)
    /\ IF active[t]
       THEN UNCHANGED <<tenantManagers, activeTenants>>
       ELSE DiscoverRemove(t)
    /\ UNCHANGED <<env, gcfg, refetchFailed, registered, streak, slice, drained, notifErr,
                   qCloses, adapterVars, mgrVars, loadFailed, slideVars, shutdownCh, tmMut,
                   managePc, discIds, tmScanPc, closePc, closeTodo, chansClosed, messengers,
                   cfg, runVars, scanVars, workerVars, queueVars, pipes, pipeVars,
                   storeVars, apiVars, histVars>>

\* discoverActiveTenants, removal loop: t.stop() returns and the instance is
\* deleted from the registry and from activeTenants
DiscoverStopped(t) ==
    /\ managePc = "remove"
    /\ stopWait(t)
    /\ DiscoverRemove(t)
    /\ UNCHANGED <<env, gcfg, refetchFailed, registered, streak, slice, drained, notifErr,
                   stopCalls, sigCloses, adapterVars, mgrVars, loadFailed, slideVars,
                   shutdownCh, tmMut, managePc, discIds, tmScanPc, closePc, closeTodo,
                   active, stopCh, messengers, cfg, runVars, scanVars, workerVars,
                   queueVars, pipes, pipeVars, storeVars, apiVars, histVars>>

\* discoverActiveTenants: the removal loop is over and the deferred unlocks run
DiscoverUnlock ==
    /\ managePc = "remove"
    /\ ToRemove = {}
    /\ \A u \in Tenants : stopPc[u] # "wait"
    /\ tmMut' = "free"
    /\ managePc' = "loop"
    /\ UNCHANGED <<env, gcfg, obsVars, adapterVars, mgrVars, loadFailed, slideVars,
                   shutdownCh, tenantManagers, activeTenants, discIds, tmScanPc, closePc,
                   closeTodo, instVars, runVars, scanVars, workerVars, queueVars, pipes,
                   pipeVars, storeVars, apiVars, histVars>>

\* manageTenants: the select of its loop, ticker case
ManageTick ==
    /\ managePc = "loop"
    /\ managePc' = "query"
    /\ UNCHANGED <<env, gcfg, obsVars, adapterVars, mgrVars, loadFailed, slideVars,
                   shutdownCh, tmMut, tenantManagers, activeTenants, discIds, tmScanPc,
                   closePc, closeTodo, instVars, runVars, scanVars, workerVars, queueVars,
                   pipes, pipeVars, storeVars, apiVars, histVars>>

\* manageTenants: the select of its loop, shutdownCh case
ManageShutdown ==
    /\ managePc = "loop"
    /\ shutdownCh
    /\ managePc' = "done"
    /\ UNCHANGED <<env, gcfg, obsVars, adapterVars, mgrVars, loadFailed, slideVars,
                   shutdownCh, tmMut, tenantManagers, activeTenants, discIds, tmScanPc,
                   closePc, closeTodo, instVars, runVars, scanVars, workerVars, queueVars,
                   pipes, pipeVars, storeVars, apiVars, histVars>>

\* TenantManager.AddMessenger: adds to the instances that exist now, in map order,
\* and returns at the first instance that already has the messenger.
TMAddMessenger ==
    /\ tmMut = "free"
    /\ LET had == {t \in tenantManagers : messengers[t]}
       IN /\ \E S \in SUBSET (tenantManagers \ had) :
                /\ had = {} => S = tenantManagers
                /\ messengers' = [t \in Tenants |-> messengers[t] \/ t \in S]
          /\ registered' = (registered \/ had = {})
    /\ UNCHANGED <<env, gcfg, refetchFailed, stopHist, notifErr, streak, slice, drained,
                   adapterVars, mgrVars, loadFailed, slideVars, tmVars, active, stopCh,
                   chansClosed, stopPc, cfg, runVars, scanVars, workerVars, queueVars,
                   pipes, pipeVars, storeVars, apiVars, histVars>>

\* TenantManager.Close, called once Run has started the manager's goroutines:
\* close(tm.shutdownCh)
CloseBegin ==
    /\ env.close
    /\ managePc # "none"
    /\ closePc = "idle"
    /\ shutdownCh' = TRUE
    /\ closePc' = "lock"
    /\ UNCHANGED <<env, gcfg, obsVars, adapterVars, mgrVars, loadFailed, slideVars, tmMut,
                   tenantManagers, activeTenants, managePc, discIds, tmScanPc, closeTodo,
                   instVars, runVars, scanVars, workerVars, queueVars, pipes, pipeVars,
                   storeVars, apiVars, histVars>>

\* TenantManager.Close: tm.tenantManagersMut.Lock() and the range over the registry
CloseLock ==
    /\ closePc = "lock"
    /\ tmMut = "free"
    /\ apiPc = "idle"
    /\ tmMut' = "close"
    /\ closeTodo' = tenantManagers
    /\ closePc' = "stop"
    /\ UNCHANGED <<env, gcfg, obsVars, adapterVars, mgrVars, loadFailed, slideVars,
                   shutdownCh, tenantManagers, activeTenants, managePc, discIds, tmScanPc,
                   instVars, runVars, scanVars, workerVars, queueVars, pipes, pipeVars,
                   storeVars, apiVars, histVars>>

\* TenantManager.Close: t.stop() on the next instance of the range
CloseStop(t) ==
    /\ closePc = "stop"
    /\ t \in closeTodo
    /\ \A u \in Tenants : stopPc[u] # "wait"
    /\ stopBegin(t)
    /\ closeTodo' = closeTodo \ {t}
    /\ UNCHANGED <<env, gcfg, refetchFailed, registered, streak, slice, drained, notifErr,
                   qCloses, adapterVars, mgrVars, loadFailed, slideVars, shutdownCh, tmMut,
                   tenantManagers, activeTenants, managePc, discIds, tmScanPc, closePc,
                   chansClosed, messengers, cfg, runVars, scanVars, workerVars, queueVars,
                   pipes, pipeVars, storeVars, apiVars, histVars>>

\* TenantManager.Close: the t.stop() in progress returns
CloseStopped(t) ==
    /\ closePc = "stop"
    /\ stopWait(t)
    /\ UNCHANGED <<env, gcfg, refetchFailed, registered, streak, slice, drained, notifErr,
                   stopCalls, sigCloses, adapterVars, mgrVars, loadFailed, slideVars,
                   tmVars, active, stopCh, messengers, cfg, runVars, scanVars, workerVars,
                   queueVars, pipes, pipeVars, storeVars, apiVars, histVars>>

\* TenantManager.Close: tm.tenantManagersMut.Unlock()
CloseUnlock ==
    /\ closePc = "stop"
    /\ closeTodo = {}
    /\ \A u \in Tenants : stopPc[u] # "wait"
    /\ tmMut' = "free"
    /\ closePc' = "wait"
    /\ UNCHANGED <<env, gcfg, obsVars, adapterVars, mgrVars, loadFailed, slideVars,
                   shutdownCh, tenantManagers, activeTenants, managePc, discIds, tmScanPc,
                   closeTodo, instVars, runVars, scanVars, workerVars, queueVars, pipes,
                   pipeVars, storeVars, apiVars, histVars>>

\* TenantManager.Close: tm.wg.Wait() returns
CloseReturn ==
    /\ closePc = "wait"
    /\ managePc \in {"none", "done"}
    /\ tmScanPc \in {"none", "done"}
    /\ closePc' = "returned"
    /\ UNCHANGED <<env, gcfg, obsVars, adapterVars, mgrVars, loadFailed, slideVars,
                   shutdownCh, tmMut, tenantManagers, activeTenants, managePc, discIds,
                   tmScanPc, closeTodo, instVars, runVars, scanVars, workerVars, queueVars,
                   pipes, pipeVars, storeVars, apiVars, histVars>>

\* ---------------------------------------------------------------- Store

Min(a, b) == IF a < b THEN a ELSE b

\* NextTenantSubscribers: up to `limit` subscribers after the campaign's cursor
NextTenantSubscribers(cur, limit) ==
    [i \in 1..Min(limit, env.subs - cur) |-> cur + i]

\* a scan query that ignores the ids it is given
NextTenantCampaignsAll(t, ids) ==
    {c \in Campaigns : campStatus[t][c] = StatusRunning}

\* NextTenantCampaigns: the running campaigns of the tenant that are not in `ids`
NextTenantCampaigns(t, ids) ==
    {c \in Campaigns : campStatus[t][c] = StatusRunning /\ c \notin ids}

\* ------------------------------------------- tenantInstanceManager.run

\* run(): starts TenantMaxConcurrency workers and the campaign scan
RunStart(t) ==
    /\ runPc[t] = "start"
    /\ wpc' = [wpc EXCEPT ![t] = [w \in Workers |->
                 IF w <= cfg[t].TenantMaxConcurrency THEN "idle" ELSE "none"]]
    /\ scanPc' = [scanPc EXCEPT ![t] = IF cfg[t].ScanCampaigns THEN "tick" ELSE "none"]
    /\ runPc' = [runPc EXCEPT ![t] = "select"]
    /\ UNCHANGED <<env, gcfg, obsVars, adapterVars, mgrVars, loadFailed, slideVars, tmVars,
                   instVars, runPipe, runSubs, scanTodo, scanTmp, scanIds, scanCounts,
                   scanNew, wmsg, numMsg, queueVars, pipes, pipeVars, storeVars, apiVars,
                   histVars>>

\* run(): tp := <-tim.nextPipes; the Store fails the batch fetch and the loop
\* continues without the pipe
RunFetchError(t) ==
    /\ runPc[t] = "select"
    /\ nextPipes[t] # <<>>
    /\ env.storeErr
    /\ nextPipes' = [nextPipes EXCEPT ![t] = Tail(@)]
    /\ UNCHANGED <<env, gcfg, obsVars, adapterVars, mgrVars, loadFailed, slideVars, tmVars,
                   instVars, runVars, scanVars, workerVars, campMsgQ, pipes, pipeVars,
                   storeVars, apiVars, histVars>>

\* run(): tp := <-tim.nextPipes; NextSubscribers fetches the next batch.  An empty
\* batch ends batching: tp.wg.Done() releases the token of newTenantPipe.
RunFetch(t) ==
    /\ runPc[t] = "select"
    /\ nextPipes[t] # <<>>
    /\ LET p == Head(nextPipes[t])
           c == pCamp[p]
           subs == NextTenantSubscribers(subCursor[t][c], cfg[t].TenantMaxBatchSize)
       IN /\ nextPipes' = [nextPipes EXCEPT ![t] = Tail(@)]
          /\ subCursor' = [subCursor EXCEPT ![t][c] = @ + Len(subs)]
          /\ IF subs = <<>>
             THEN /\ wg' = [wg EXCEPT ![p] = @ - 1]
                  /\ drained' = [drained EXCEPT ![p] = TRUE]
                  /\ UNCHANGED <<runVars, batches>>
             ELSE /\ runPipe' = [runPipe EXCEPT ![t] = p]
                  /\ runSubs' = [runSubs EXCEPT ![t] = subs]
                  /\ runPc' = [runPc EXCEPT ![t] = "render"]
                  /\ batches' = [batches EXCEPT ![p] = Append(@, Len(subs))]
                  /\ UNCHANGED <<wg, drained>>
    /\ UNCHANGED <<env, gcfg, refetchFailed, stopHist, notifErr, registered, streak, slice,
                   adapterVars, mgrVars, loadFailed, slideVars, tmVars, instVars, scanVars,
                   workerVars, campMsgQ, pipes, nPipes, pTenant, pCamp, sent, lastID,
                   errors, stopped, withErrors, cpc, campStatus, campSent, campLastID,
                   apiVars, accepted, failed, statusLog, notifLog, manual>>

\* NextSubscribers: what follows one subscriber of the batch
AfterSubscriber(t) ==
    /\ runSubs' = [runSubs EXCEPT ![t] = Tail(@)]
    /\ runPc' = [runPc EXCEPT ![t] = IF Tail(runSubs[t]) = <<>> THEN "resubmit" ELSE "render"]

\* a NextSubscribers that gives up the rest of the batch when a message fails
\* to render
RunRenderErrorAborts(t) ==
    /\ runPc[t] = "render"
    /\ env.renderErr
    /\ runSubs' = [runSubs EXCEPT ![t] = <<>>]
    /\ runPc' = [runPc EXCEPT ![t] = "resubmit"]
    /\ UNCHANGED <<env, gcfg, obsVars, adapterVars, mgrVars, loadFailed, slideVars, tmVars,
                   instVars, runPipe, scanVars, workerVars, queueVars, pipes, pipeVars,
                   storeVars, apiVars, histVars>>

\* NextSubscribers: newTenantMessage fails to render and the subscriber is skipped
RunRenderError(t) ==
    /\ runPc[t] = "render"
    /\ env.renderErr
    /\ AfterSubscriber(t)
    /\ UNCHANGED <<env, gcfg, obsVars, adapterVars, mgrVars, loadFailed, slideVars, tmVars,
                   instVars, runPipe, scanVars, workerVars, queueVars, pipes, pipeVars,
                   storeVars, apiVars, histVars>>

\* a newTenantMessage that renders the message without tp.wg.Add(1)
RunRenderNoAdd(t) ==
    /\ runPc[t] = "render"
    /\ runPc' = [runPc EXCEPT ![t] = "push"]
    /\ UNCHANGED <<env, gcfg, obsVars, adapterVars, mgrVars, loadFailed, slideVars, tmVars,
                   instVars, runPipe, runSubs, scanVars, workerVars, queueVars, pipes,
                   pipeVars, storeVars, apiVars, histVars>>

\* NextSubscribers: newTenantMessage renders the message and does tp.wg.Add(1)
RunRender(t) ==
    /\ runPc[t] = "render"
    /\ wg' = [wg EXCEPT ![runPipe[t]] = @ + 1]
    /\ runPc' = [runPc EXCEPT ![t] = "push"]
    /\ UNCHANGED <<env, gcfg, obsVars, adapterVars, mgrVars, loadFailed, slideVars, tmVars,
                   instVars, runPipe, runSubs, scanVars, workerVars, queueVars, pipes,
                   nPipes, pTenant, pCamp, sent, lastID, errors, stopped, withErrors, cpc,
                   storeVars, apiVars, histVars>>

\* NextSubscribers: hasSliding
hasSliding(t) ==
    /\ cfg[t].SlidingWindow
    /\ cfg[t].SlidingWindowRate > 0
    /\ cfg[t].SlidingWindowDuration > 1

\* NextSubscribers: tp.m.campMsgQ <- msg, which blocks while the queue is full;
\* with the sliding window on, the window's bookkeeping follows the push
RunPush(t) ==
    /\ runPc[t] = "push"
    /\ Len(campMsgQ[t]) < CampMsgQCap(t)
    /\ campMsgQ' = [campMsgQ EXCEPT ![t] =
                      Append(@, [pipe |-> runPipe[t], sub |-> Head(runSubs[t])])]
    /\ IF hasSliding(t)
       THEN /\ runSubs' = [runSubs EXCEPT ![t] = Tail(@)]
            /\ runPc' = [runPc EXCEPT ![t] = "slide"]
            /\ pushLog' = [pushLog EXCEPT ![t] = Append(@, now)]
       ELSE /\ AfterSubscriber(t)
            /\ UNCHANGED pushLog
    /\ UNCHANGED <<env, gcfg, obsVars, adapterVars, mgrVars, loadFailed, now, slidingStart,
                   slidingCount, runWake, tmVars, instVars, runPipe, scanVars, workerVars,
                   nextPipes, pipes, pipeVars, storeVars, apiVars, histVars>>

\* NextSubscribers: the loop over the batch goes on to its next subscriber
NextSubscriberPc(t) == IF runSubs[t] = <<>> THEN "resubmit" ELSE "render"

\* NextSubscribers after a push with the sliding window on: a window that is
\* over is restarted and the loop continues; otherwise the message is counted,
\* and at SlidingWindowRate the count is zeroed and the loop sleeps for what is
\* left of the window
RunSlide(t) ==
    /\ runPc[t] = "slide"
    /\ LET diff == now - slidingStart[t]
           count == slidingCount[t] + 1
       IN IF diff >= cfg[t].SlidingWindowDuration
          THEN /\ slidingStart' = [slidingStart EXCEPT ![t] = now]
               /\ slidingCount' = [slidingCount EXCEPT ![t] = 0]
               /\ runPc' = [runPc EXCEPT ![t] = NextSubscriberPc(t)]
               /\ UNCHANGED runWake
          ELSE IF count >= cfg[t].SlidingWindowRate
               THEN /\ slidingCount' = [slidingCount EXCEPT ![t] = 0]
                    /\ runWake' = [runWake EXCEPT ![t] =
                                     now + (cfg[t].SlidingWindowDuration - diff)]
                    /\ runPc' = [runPc EXCEPT ![t] = "sleep"]
                    /\ UNCHANGED slidingStart
               ELSE /\ slidingCount' = [slidingCount EXCEPT ![t] = count]
                    /\ runPc' = [runPc EXCEPT ![t] = NextSubscriberPc(t)]
                    /\ UNCHANGED <<slidingStart, runWake>>
    /\ UNCHANGED <<env, gcfg, obsVars, adapterVars, mgrVars, loadFailed, now, pushLog,
                   tmVars, instVars, runPipe, runSubs, scanVars, workerVars, queueVars,
                   pipes, pipeVars, storeVars, apiVars, histVars>>

\* NextSubscribers: time.Sleep(wait) returns, not before the time is up
RunSlept(t) ==
    /\ runPc[t] = "sleep"
    /\ now >= runWake[t]
    /\ runPc' = [runPc EXCEPT ![t] = NextSubscriberPc(t)]
    /\ runWake' = [runWake EXCEPT ![t] = 0]
    /\ UNCHANGED <<env, gcfg, obsVars, adapterVars, mgrVars, loadFailed, now, slidingStart,
                   slidingCount, pushLog, tmVars, instVars, runPipe, runSubs, scanVars,
                   workerVars, queueVars, pipes, pipeVars, storeVars, apiVars, histVars>>

\* a second passes
Tick ==
    /\ now < MaxTime
    /\ now' = now + 1
    /\ UNCHANGED <<env, gcfg, obsVars, adapterVars, mgrVars, loadFailed, slidingStart,
                   slidingCount, runWake, pushLog, tmVars, instVars, runVars, scanVars,
                   workerVars, queueVars, pipes, pipeVars, storeVars, apiVars, histVars>>

\* the non-blocking send of a pipe to nextPipes: skipped when the queue is full
submit(q, p) == IF Len(q) < NextPipesCap THEN Append(q, p) ELSE q

\* run(): the batch was not empty; queue the pipe for its next batch
RunResubmit(t) ==
    /\ runPc[t] = "resubmit"
    /\ nextPipes' = [nextPipes EXCEPT ![t] = submit(@, runPipe[t])]
    /\ runPc' = [runPc EXCEPT ![t] = "select"]
    /\ runPipe' = [runPipe EXCEPT ![t] = 0]
    /\ UNCHANGED <<env, gcfg, obsVars, adapterVars, mgrVars, loadFailed, slideVars, tmVars,
                   instVars, runSubs, scanVars, workerVars, campMsgQ, pipes, pipeVars,
                   storeVars, apiVars, histVars>>

\* run(): the select's stopCh case
RunStop(t) ==
    /\ runPc[t] = "select"
    /\ stopCh[t]
    /\ runPc' = [runPc EXCEPT ![t] = "done"]
    /\ UNCHANGED <<env, gcfg, obsVars, adapterVars, mgrVars, loadFailed, slideVars, tmVars,
                   instVars, runPipe, runSubs, scanVars, workerVars, queueVars, pipes,
                   pipeVars, storeVars, apiVars, histVars>>

\* ------------------------------------- tenantInstanceManager.scanCampaigns

\* the pipe objects registered in tim.pipes
Registered(t) == {pipes[t][c] : c \in Campaigns} \ {0}

\* a caller of StopTenantCampaign holds pipesMut.RLock of instance t
ApiReads(t) == apiPc # "idle" /\ pTenant[apiPipe] = t

\* scanCampaigns: a tick; getCurrentCampaigns takes pipesMut.RLock and ranges
\* over tim.pipes
ScanTick(t) ==
    /\ scanPc[t] = "tick"
    /\ scanTodo' = [scanTodo EXCEPT ![t] = Registered(t)]
    /\ scanIds' = [scanIds EXCEPT ![t] = {}]
    /\ scanCounts' = [scanCounts EXCEPT ![t] = [c \in Campaigns |-> 0]]
    /\ scanPc' = [scanPc EXCEPT ![t] = IF Registered(t) = {} THEN "query" ELSE "load"]
    /\ UNCHANGED <<env, gcfg, obsVars, adapterVars, mgrVars, loadFailed, slideVars, tmVars,
                   instVars, runVars, scanTmp, scanNew, workerVars, queueVars, pipes,
                   pipeVars, storeVars, apiVars, histVars>>

\* getCurrentCampaigns: counts = append(counts, p.sent.Load())
ScanLoad(t) ==
    /\ scanPc[t] = "load"
    /\ \E p \in scanTodo[t] :
          scanTmp' = [scanTmp EXCEPT ![t] = [pipe |-> p, n |-> sent[p]]]
    /\ scanPc' = [scanPc EXCEPT ![t] = "reset"]
    /\ UNCHANGED <<env, gcfg, obsVars, adapterVars, mgrVars, loadFailed, slideVars, tmVars,
                   instVars, runVars, scanTodo, scanIds, scanCounts, scanNew, workerVars,
                   queueVars, pipes, pipeVars, storeVars, apiVars, histVars>>

\* getCurrentCampaigns: p.sent.Store(0)
ScanReset(t) ==
    /\ scanPc[t] = "reset"
    /\ LET p == scanTmp[t].pipe
       IN /\ sent' = [sent EXCEPT ![p] = 0]
          /\ scanIds' = [scanIds EXCEPT ![t] = @ \cup {pCamp[p]}]
          /\ scanCounts' = [scanCounts EXCEPT ![t][pCamp[p]] = scanTmp[t].n]
          /\ scanTodo' = [scanTodo EXCEPT ![t] = @ \ {p}]
          /\ scanPc' = [scanPc EXCEPT ![t] = IF scanTodo[t] = {p} THEN "query" ELSE "load"]
    /\ scanTmp' = [scanTmp EXCEPT ![t] = [pipe |-> 0, n |-> 0]]
    /\ UNCHANGED <<env, gcfg, obsVars, adapterVars, mgrVars, loadFailed, slideVars, tmVars,
                   instVars, runVars, scanNew, workerVars, queueVars, pipes, nPipes,
                   pTenant, pCamp, wg, lastID, errors, stopped, withErrors, cpc, storeVars,
                   apiVars, histVars>>

\* the ids and counts of getCurrentCampaigns go out of scope
ScanForget(t) ==
    /\ scanIds' = [scanIds EXCEPT ![t] = {}]
    /\ scanCounts' = [scanCounts EXCEPT ![t] = [c \in Campaigns |-> 0]]

\* scanCampaigns: the Store fails NextTenantCampaigns; the tick is abandoned
ScanQueryError(t) ==
    /\ scanPc[t] = "query"
    /\ env.storeErr
    /\ scanPc' = [scanPc EXCEPT ![t] = "tick"]
    /\ ScanForget(t)
    /\ UNCHANGED <<env, gcfg, obsVars, adapterVars, mgrVars, loadFailed, slideVars, tmVars,
                   instVars, runVars, scanTodo, scanTmp, scanNew, workerVars, queueVars,
                   pipes, pipeVars, storeVars, apiVars, histVars>>

\* pipe objects of the model left for tenant t: the MaxPipes objects are divided
\* evenly among the tenants that have work
FreePipes(t) ==
    (MaxPipes \div Cardinality(env.ids)) - Cardinality({p \in Pipes : pTenant[p] = t})

\* scanCampaigns: NextTenantCampaigns(ids, counts).  The Store adds each delta to
\* the campaign's sent count and returns the due campaigns outside ids (no more
\* of them than the model has pipe objects left).
ScanQuery(t) ==
    /\ scanPc[t] = "query"
    /\ campSent' = [campSent EXCEPT ![t] = [c \in Campaigns |-> @[c] + scanCounts[t][c]]]
    /\ LET due == NextTenantCampaigns(t, scanIds[t])
       IN \E S \in SUBSET due :
             /\ Cardinality(S) = Min(Cardinality(due), FreePipes(t))
             /\ scanNew' = [scanNew EXCEPT ![t] = S]
             /\ scanPc' = [scanPc EXCEPT ![t] = IF S = {} THEN "tick" ELSE "create"]
    /\ ScanForget(t)
    /\ UNCHANGED <<env, gcfg, obsVars, adapterVars, mgrVars, loadFailed, slideVars, tmVars,
                   instVars, runVars, scanTodo, scanTmp, workerVars, queueVars, pipes,
                   pipeVars, campStatus, campLastID, subCursor, apiVars, histVars>>

\* what follows one campaign of the scan's result
AfterCampaign(t, c) ==
    /\ scanNew' = [scanNew EXCEPT ![t] = @ \ {c}]
    /\ scanPc' = [scanPc EXCEPT ![t] = IF scanNew[t] = {c} THEN "tick" ELSE "create"]

\* newTenantPipe: the campaign's messenger is unknown to the instance; the
\* campaign is cancelled and gets no pipe
ScanCreateCancel(t) ==
    /\ scanPc[t] = "create"
    /\ ~messengers[t]
    /\ \E c \in scanNew[t] :
          /\ campStatus' = [campStatus EXCEPT ![t][c] = StatusCancelled]
          /\ AfterCampaign(t, c)
    /\ UNCHANGED <<env, gcfg, obsVars, adapterVars, mgrVars, loadFailed, slideVars, tmVars,
                   instVars, runVars, scanTodo, scanTmp, scanIds, scanCounts, workerVars,
                   queueVars, pipes, pipeVars, campSent, campLastID, subCursor, apiVars,
                   histVars>>

\* newTenantPipe: CompileTemplate or attachMedia fails and the error is returned;
\* scanCampaigns logs it and goes on to the next campaign
ScanCreateError(t) ==
    /\ scanPc[t] = "create"
    /\ messengers[t]
    /\ env.renderErr
    /\ \E c \in scanNew[t] : AfterCampaign(t, c)
    /\ UNCHANGED <<env, gcfg, obsVars, adapterVars, mgrVars, loadFailed, slideVars, tmVars,
                   instVars, runVars, scanTodo, scanTmp, scanIds, scanCounts, workerVars,
                   queueVars, pipes, pipeVars, storeVars, apiVars, histVars>>

\* newTenantPipe: a pipe with wg = 1 and its goroutine waiting on wg, registered
\* under pipesMut; then the scan's non-blocking send to nextPipes
ScanCreate(t) ==
    /\ scanPc[t] = "create"
    /\ messengers[t]
    /\ ~ApiReads(t)
    /\ \E c \in scanNew[t] :
          LET p == nPipes + 1
          IN /\ nPipes' = p
             /\ pTenant' = [pTenant EXCEPT ![p] = t]
             /\ pCamp' = [pCamp EXCEPT ![p] = c]
             /\ wg' = [wg EXCEPT ![p] = 1]
             /\ cpc' = [cpc EXCEPT ![p] = "wait"]
             /\ pipes' = [pipes EXCEPT ![t][c] = p]
             /\ nextPipes' = [nextPipes EXCEPT ![t] = submit(@, p)]
             /\ AfterCampaign(t, c)
    /\ UNCHANGED <<env, gcfg, obsVars, adapterVars, mgrVars, loadFailed, slideVars, tmVars,
                   instVars, runVars, scanTodo, scanTmp, scanIds, scanCounts, workerVars,
                   campMsgQ, sent, lastID, errors, stopped, withErrors, storeVars, apiVars,
                   histVars>>

\* scanCampaigns: the select's stopCh case
ScanStop(t) ==
    /\ scanPc[t] = "tick"
    /\ stopCh[t]
    /\ scanPc' = [scanPc EXCEPT ![t] = "done"]
    /\ UNCHANGED <<env, gcfg, obsVars, adapterVars, mgrVars, loadFailed, slideVars, tmVars,
                   instVars, runVars, scanTodo, scanTmp, scanIds, scanCounts, scanNew,
                   workerVars, queueVars, pipes, pipeVars, storeVars, apiVars, histVars>>

\* ---------------------------------------- tenantInstanceManager.worker

\* a worker that discards the message of a stopped pipe without wg.Done()
WorkerDiscardNoDone(t, w) ==
    /\ wpc[t][w] = "idle"
    /\ campMsgQ[t] # <<>>
    /\ stopped[Head(campMsgQ[t]).pipe]
    /\ campMsgQ' = [campMsgQ EXCEPT ![t] = Tail(@)]
    /\ UNCHANGED <<env, gcfg, obsVars, adapterVars, mgrVars, loadFailed, slideVars, tmVars,
                   instVars, runVars, scanVars, workerVars, nextPipes, pipes, pipeVars,
                   storeVars, apiVars, histVars>>

\* worker: msg := <-tim.campMsgQ of a pipe flagged stopped: the message is
\* discarded with msg.pipe.wg.Done()
WorkerDiscard(t, w) ==
    /\ wpc[t][w] = "idle"
    /\ campMsgQ[t] # <<>>
    /\ stopped[Head(campMsgQ[t]).pipe]
    /\ campMsgQ' = [campMsgQ EXCEPT ![t] = Tail(@)]
    /\ wg' = [wg EXCEPT ![Head(campMsgQ[t]).pipe] = @ - 1]
    /\ UNCHANGED <<env, gcfg, obsVars, adapterVars, mgrVars, loadFailed, slideVars, tmVars,
                   instVars, runVars, scanVars, workerVars, nextPipes, pipes, nPipes,
                   pTenant, pCamp, sent, lastID, errors, stopped, withErrors, cpc,
                   storeVars, apiVars, histVars>>

\* a worker that never pauses on hitting the message rate
WorkerDequeueNoSleep(t, w) ==
    /\ wpc[t][w] = "idle"
    /\ campMsgQ[t] # <<>>
    /\ ~stopped[Head(campMsgQ[t]).pipe]
    /\ campMsgQ' = [campMsgQ EXCEPT ![t] = Tail(@)]
    /\ wmsg' = [wmsg EXCEPT ![t][w] = Head(campMsgQ[t])]
    /\ wpc' = [wpc EXCEPT ![t][w] = "send"]
    /\ numMsg' = [numMsg EXCEPT ![t][w] = @ + 1]
    /\ UNCHANGED <<env, gcfg, obsVars, adapterVars, mgrVars, loadFailed, slideVars, tmVars,
                   instVars, runVars, scanVars, nextPipes, pipes, pipeVars, storeVars,
                   apiVars, histVars>>

\* a worker that takes a message without the msg.pipe.stopped.Load() check
WorkerDequeueUnchecked(t, w) ==
    /\ wpc[t][w] = "idle"
    /\ campMsgQ[t] # <<>>
    /\ campMsgQ' = [campMsgQ EXCEPT ![t] = Tail(@)]
    /\ wmsg' = [wmsg EXCEPT ![t][w] = Head(campMsgQ[t])]
    /\ IF numMsg[t][w] >= cfg[t].TenantMessageRate
       THEN /\ wpc' = [wpc EXCEPT ![t][w] = "sleep"]
            /\ UNCHANGED numMsg
       ELSE /\ wpc' = [wpc EXCEPT ![t][w] = "send"]
            /\ numMsg' = [numMsg EXCEPT ![t][w] = @ + 1]
    /\ UNCHANGED <<env, gcfg, obsVars, adapterVars, mgrVars, loadFailed, slideVars, tmVars,
                   instVars, runVars, scanVars, nextPipes, pipes, pipeVars, storeVars,
                   apiVars, histVars>>

\* worker: msg := <-tim.campMsgQ of a running pipe; on numMsg >= TenantMessageRate
\* the worker sleeps a second before it sends
WorkerDequeue(t, w) ==
    /\ wpc[t][w] = "idle"
    /\ campMsgQ[t] # <<>>
    /\ ~stopped[Head(campMsgQ[t]).pipe]
    /\ campMsgQ' = [campMsgQ EXCEPT ![t] = Tail(@)]
    /\ wmsg' = [wmsg EXCEPT ![t][w] = Head(campMsgQ[t])]
    /\ IF numMsg[t][w] >= cfg[t].TenantMessageRate
       THEN /\ wpc' = [wpc EXCEPT ![t][w] = "sleep"]
            /\ UNCHANGED numMsg
       ELSE /\ wpc' = [wpc EXCEPT ![t][w] = "send"]
            /\ numMsg' = [numMsg EXCEPT ![t][w] = @ + 1]
    /\ UNCHANGED <<env, gcfg, obsVars, adapterVars, mgrVars, loadFailed, slideVars, tmVars,
                   instVars, runVars, scanVars, nextPipes, pipes, pipeVars, storeVars,
                   apiVars, histVars>>

\* worker: time.Sleep(time.Second) is over; numMsg = 0; numMsg++
WorkerWake(t, w) ==
    /\ wpc[t][w] = "sleep"
    /\ numMsg' = [numMsg EXCEPT ![t][w] = 1]
    /\ wpc' = [wpc EXCEPT ![t][w] = "send"]
    /\ slice' = [slice EXCEPT ![t][w] = 0]
    /\ UNCHANGED <<env, gcfg, refetchFailed, stopHist, notifErr, registered, streak,
                   drained, adapterVars, mgrVars, loadFailed, slideVars, tmVars, instVars,
                   runVars, scanVars, wmsg, queueVars, pipes, pipeVars, storeVars, apiVars,
                   histVars>>

\* worker: the Messenger accepts the message; msg.pipe.wg.Done()
WorkerSendOk(t, w) ==
    /\ wpc[t][w] = "send"
    /\ wg' = [wg EXCEPT ![wmsg[t][w].pipe] = @ - 1]
    /\ accepted' = [accepted EXCEPT ![wmsg[t][w].pipe] = @ + 1]
    /\ wpc' = [wpc EXCEPT ![t][w] = "lastLoad"]
    /\ streak' = [streak EXCEPT ![wmsg[t][w].pipe] = 0]
    /\ slice' = [slice EXCEPT ![t][w] = @ + 1]
    /\ UNCHANGED <<env, gcfg, refetchFailed, stopHist, notifErr, registered, drained,
                   adapterVars, mgrVars, loadFailed, slideVars, tmVars, instVars, runVars,
                   scanVars, wmsg, numMsg, queueVars, pipes, nPipes, pTenant, pCamp, sent,
                   lastID, errors, stopped, withErrors, cpc, storeVars, apiVars, failed,
                   statusLog, notifLog, manual, batches>>

\* worker: the Messenger returns an error; msg.pipe.wg.Done()
WorkerSendFail(t, w) ==
    /\ wpc[t][w] = "send"
    /\ t \in env.fail
    /\ wg' = [wg EXCEPT ![wmsg[t][w].pipe] = @ - 1]
    /\ failed' = [failed EXCEPT ![wmsg[t][w].pipe] = @ + 1]
    /\ wpc' = [wpc EXCEPT ![t][w] = "onError"]
    /\ streak' = [streak EXCEPT ![wmsg[t][w].pipe] = @ + 1]
    /\ slice' = [slice EXCEPT ![t][w] = @ + 1]
    /\ UNCHANGED <<env, gcfg, refetchFailed, stopHist, notifErr, registered, drained,
                   adapterVars, mgrVars, loadFailed, slideVars, tmVars, instVars, runVars,
                   scanVars, wmsg, numMsg, queueVars, pipes, nPipes, pTenant, pCamp, sent,
                   lastID, errors, stopped, withErrors, cpc, storeVars, apiVars, accepted,
                   statusLog, notifLog, manual, batches>>

\* worker is back at its select
WorkerIdle(t, w) ==
    /\ wpc' = [wpc EXCEPT ![t][w] = "idle"]
    /\ wmsg' = [wmsg EXCEPT ![t][w] = NoMsg]

\* tenantPipe.OnError: count := tp.errors.Add(1); below the threshold it returns,
\* else tp.Stop(true), which returns when tp.stopped.Load() is already true
WorkerOnError(t, w) ==
    /\ wpc[t][w] = "onError"
    /\ LET p == wmsg[t][w].pipe
           T == cfg[t].TenantMaxSendErrors
       IN IF T < 1
          THEN WorkerIdle(t, w) /\ UNCHANGED errors
          ELSE /\ errors' = [errors EXCEPT ![p] = @ + 1]
               /\ IF errors[p] + 1 < T \/ stopped[p]
                  THEN WorkerIdle(t, w)
                  ELSE wpc' = [wpc EXCEPT ![t][w] = "stopWithErrors"] /\ UNCHANGED wmsg
    /\ UNCHANGED <<env, gcfg, obsVars, adapterVars, mgrVars, loadFailed, slideVars, tmVars,
                   instVars, runVars, scanVars, numMsg, queueVars, pipes, nPipes, pTenant,
                   pCamp, wg, sent, lastID, stopped, withErrors, cpc, storeVars, apiVars,
                   histVars>>

\* tenantPipe.Stop(true): tp.withErrors.Store(true)
WorkerStopWithErrors(t, w) ==
    /\ wpc[t][w] = "stopWithErrors"
    /\ withErrors' = [withErrors EXCEPT ![wmsg[t][w].pipe] = TRUE]
    /\ wpc' = [wpc EXCEPT ![t][w] = "stopStore"]
    /\ UNCHANGED <<env, gcfg, obsVars, adapterVars, mgrVars, loadFailed, slideVars, tmVars,
                   instVars, runVars, scanVars, wmsg, numMsg, queueVars, pipes, nPipes,
                   pTenant, pCamp, wg, sent, lastID, errors, stopped, cpc, storeVars,
                   apiVars, histVars>>

\* tenantPipe.Stop(true): tp.stopped.Store(true)
WorkerStopStore(t, w) ==
    /\ wpc[t][w] = "stopStore"
    /\ stopped' = [stopped EXCEPT ![wmsg[t][w].pipe] = TRUE]
    /\ WorkerIdle(t, w)
    /\ UNCHANGED <<env, gcfg, obsVars, adapterVars, mgrVars, loadFailed, slideVars, tmVars,
                   instVars, runVars, scanVars, numMsg, queueVars, pipes, nPipes, pTenant,
                   pCamp, wg, sent, lastID, errors, withErrors, cpc, storeVars, apiVars,
                   histVars>>

\* worker: if id > msg.pipe.lastID.Load()
WorkerLastLoad(t, w) ==
    /\ wpc[t][w] = "lastLoad"
    /\ wpc' = [wpc EXCEPT ![t][w] =
                 IF wmsg[t][w].sub > lastID[wmsg[t][w].pipe] THEN "lastStore" ELSE "sentAdd"]
    /\ UNCHANGED <<env, gcfg, obsVars, adapterVars, mgrVars, loadFailed, slideVars, tmVars,
                   instVars, runVars, scanVars, wmsg, numMsg, queueVars, pipes, pipeVars,
                   storeVars, apiVars, histVars>>

\* worker: msg.pipe.lastID.Store(id)
WorkerLastStore(t, w) ==
    /\ wpc[t][w] = "lastStore"
    /\ lastID' = [lastID EXCEPT ![wmsg[t][w].pipe] = wmsg[t][w].sub]
    /\ wpc' = [wpc EXCEPT ![t][w] = "sentAdd"]
    /\ UNCHANGED <<env, gcfg, obsVars, adapterVars, mgrVars, loadFailed, slideVars, tmVars,
                   instVars, runVars, scanVars, wmsg, numMsg, queueVars, pipes, nPipes,
                   pTenant, pCamp, wg, sent, errors, stopped, withErrors, cpc, storeVars,
                   apiVars, histVars>>

\* worker: msg.pipe.rate.Incr(1); msg.pipe.sent.Add(1)
WorkerSentAdd(t, w) ==
    /\ wpc[t][w] = "sentAdd"
    /\ sent' = [sent EXCEPT ![wmsg[t][w].pipe] = @ + 1]
    /\ WorkerIdle(t, w)
    /\ UNCHANGED <<env, gcfg, obsVars, adapterVars, mgrVars, loadFailed, slideVars, tmVars,
                   instVars, runVars, scanVars, numMsg, queueVars, pipes, nPipes, pTenant,
                   pCamp, wg, lastID, errors, stopped, withErrors, cpc, storeVars, apiVars,
                   histVars>>

\* worker: the select's stopCh case
WorkerExit(t, w) ==
    /\ wpc[t][w] = "idle"
    /\ stopCh[t]
    /\ wpc' = [wpc EXCEPT ![t][w] = "exit"]
    /\ UNCHANGED <<env, gcfg, obsVars, adapterVars, mgrVars, loadFailed, slideVars, tmVars,
                   instVars, runVars, scanVars, wmsg, numMsg, queueVars, pipes, pipeVars,
                   storeVars, apiVars, histVars>>

\* ------------------------------------------------------ tenantPipe.cleanup

\* UpdateTenantCampaignCounts(toSend = 0, sent, lastID): the Store adds the delta
\* to the campaign's sent count and keeps a last subscriber id above 0
UpdateTenantCampaignCounts(p) ==
    /\ campSent' = [campSent EXCEPT ![pTenant[p]][pCamp[p]] = @ + sent[p]]
    /\ campLastID' = [campLastID EXCEPT ![pTenant[p]][pCamp[p]] =
                        IF lastID[p] > 0 THEN lastID[p] ELSE @]

\* UpdateTenantCampaignStatus by cleanup of pipe p
UpdateTenantCampaignStatus(p, status) ==
    /\ campStatus' = [campStatus EXCEPT ![pTenant[p]][pCamp[p]] = status]
    /\ statusLog' = [statusLog EXCEPT ![p] = Append(@, status)]

\* sendTenantNotif by cleanup of pipe p: fnNotify is called and may return an
\* error, which cleanup discards (_ = tp.m.sendTenantNotif(...))
sendTenantNotif(p, status) ==
    /\ notifLog' = [notifLog EXCEPT ![p] = Append(@, status)]
    /\ \E ok \in (IF env.notifErr THEN BOOLEAN ELSE {TRUE}) :
          notifErr' = [notifErr EXCEPT ![p] = @ \/ ~ok]

\* the goroutine of newTenantPipe: tp.wg.Wait() returns; cleanup reports
\* to_send = 0, sent = tp.sent.Load(), last_id = tp.lastID.Load()
CleanupCounts(p) ==
    /\ cpc[p] = "wait"
    /\ wg[p] = 0
    /\ UpdateTenantCampaignCounts(p)
    /\ cpc' = [cpc EXCEPT ![p] = "withErrors"]
    /\ UNCHANGED <<env, gcfg, obsVars, adapterVars, mgrVars, loadFailed, slideVars, tmVars,
                   instVars, runVars, scanVars, workerVars, queueVars, pipes, nPipes,
                   pTenant, pCamp, wg, sent, lastID, errors, stopped, withErrors,
                   campStatus, subCursor, apiVars, histVars>>

\* cleanup: if tp.withErrors.Load(): status paused, failure notification, return
CleanupWithErrors(p) ==
    /\ cpc[p] = "withErrors"
    /\ IF withErrors[p]
       THEN /\ UpdateTenantCampaignStatus(p, StatusPaused)
            /\ sendTenantNotif(p, StatusPaused)
            /\ cpc' = [cpc EXCEPT ![p] = "delete"]
       ELSE /\ cpc' = [cpc EXCEPT ![p] = "stopped"]
            /\ UNCHANGED <<campStatus, statusLog, notifLog, notifErr>>
    /\ UNCHANGED <<env, gcfg, refetchFailed, stopHist, registered, streak, slice, drained,
                   adapterVars, mgrVars, loadFailed, slideVars, tmVars, instVars, runVars,
                   scanVars, workerVars, queueVars, pipes, nPipes, pTenant, pCamp, wg, sent,
                   lastID, errors, stopped, withErrors, campSent, campLastID, subCursor,
                   apiVars, accepted, failed, manual, batches>>

\* a cleanup that does not read tp.stopped
CleanupStoppedUnchecked(p) ==
    /\ cpc[p] = "stopped"
    /\ cpc' = [cpc EXCEPT ![p] = "natural"]
    /\ UNCHANGED <<env, gcfg, obsVars, adapterVars, mgrVars, loadFailed, slideVars, tmVars,
                   instVars, runVars, scanVars, workerVars, queueVars, pipes, nPipes,
                   pTenant, pCamp, wg, sent, lastID, errors, stopped, withErrors, storeVars,
                   apiVars, histVars>>

\* cleanup: if tp.stopped.Load(): return
CleanupStopped(p) ==
    /\ cpc[p] = "stopped"
    /\ cpc' = [cpc EXCEPT ![p] = IF stopped[p] THEN "delete" ELSE "natural"]
    /\ UNCHANGED <<env, gcfg, obsVars, adapterVars, mgrVars, loadFailed, slideVars, tmVars,
                   instVars, runVars, scanVars, workerVars, queueVars, pipes, nPipes,
                   pTenant, pCamp, wg, sent, lastID, errors, stopped, withErrors, storeVars,
                   apiVars, histVars>>

\* a cleanup that, when GetTenantCampaign fails, takes the campaign for a
\* running one: writes finished and notifies
CleanupNaturalErrorFinishes(p) ==
    /\ cpc[p] = "natural"
    /\ env.storeErr
    /\ refetchFailed' = [refetchFailed EXCEPT ![p] = TRUE]
    /\ UpdateTenantCampaignStatus(p, StatusFinished)
    /\ sendTenantNotif(p, StatusFinished)
    /\ cpc' = [cpc EXCEPT ![p] = "delete"]
    /\ UNCHANGED <<env, gcfg, stopHist, registered, streak, slice, drained, adapterVars,
                   mgrVars, loadFailed, slideVars, tmVars, instVars, runVars, scanVars,
                   workerVars, queueVars, pipes, nPipes, pTenant, pCamp, wg, sent, lastID,
                   errors, stopped, withErrors, campSent, campLastID, subCursor, apiVars,
                   accepted, failed, manual, batches>>

\* cleanup: GetTenantCampaign fails: return
CleanupNaturalError(p) ==
    /\ cpc[p] = "natural"
    /\ env.storeErr
    /\ refetchFailed' = [refetchFailed EXCEPT ![p] = TRUE]
    /\ cpc' = [cpc EXCEPT ![p] = "delete"]
    /\ UNCHANGED <<env, gcfg, registered, streak, slice, drained, notifErr, stopHist,
                   adapterVars, mgrVars, loadFailed, slideVars, tmVars, instVars, runVars,
                   scanVars, workerVars, queueVars, pipes, nPipes, pTenant, pCamp, wg, sent,
                   lastID, errors, stopped, withErrors, storeVars, apiVars, histVars>>

\* a cleanup that notifies first and gives up, before the status update, when
\* the sink returns an error
CleanupNaturalNotifFatal(p) ==
    /\ cpc[p] = "natural"
    /\ LET status == campStatus[pTenant[p]][pCamp[p]]
           to == IF status = StatusRunning THEN StatusFinished ELSE status
       IN /\ notifLog' = [notifLog EXCEPT ![p] = Append(@, to)]
          /\ \E ok \in (IF env.notifErr THEN BOOLEAN ELSE {TRUE}) :
                /\ notifErr' = [notifErr EXCEPT ![p] = @ \/ ~ok]
                /\ IF ok /\ status = StatusRunning
                   THEN UpdateTenantCampaignStatus(p, StatusFinished)
                   ELSE UNCHANGED <<campStatus, statusLog>>
    /\ cpc' = [cpc EXCEPT ![p] = "delete"]
    /\ UNCHANGED <<env, gcfg, refetchFailed, stopHist, registered, streak, slice, drained,
                   adapterVars, mgrVars, loadFailed, slideVars, tmVars, instVars, runVars,
                   scanVars, workerVars, queueVars, pipes, nPipes, pTenant, pCamp, wg, sent,
                   lastID, errors, stopped, withErrors, campSent, campLastID, subCursor,
                   apiVars, accepted, failed, manual, batches>>

\* cleanup: the campaign as the Store has it now; running (or scheduled) becomes
\* finished; the notification carries c.Status
CleanupNatural(p) ==
    /\ cpc[p] = "natural"
    /\ LET status == campStatus[pTenant[p]][pCamp[p]]
       IN IF status = StatusRunning
          THEN /\ UpdateTenantCampaignStatus(p, StatusFinished)
               /\ sendTenantNotif(p, StatusFinished)
          ELSE /\ sendTenantNotif(p, status)
               /\ UNCHANGED <<campStatus, statusLog>>
    /\ cpc' = [cpc EXCEPT ![p] = "delete"]
    /\ UNCHANGED <<env, gcfg, refetchFailed, stopHist, registered, streak, slice, drained,
                   adapterVars, mgrVars, loadFailed, slideVars, tmVars, instVars, runVars,
                   scanVars, workerVars, queueVars, pipes, nPipes, pTenant, pCamp, wg, sent,
                   lastID, errors, stopped, withErrors, campSent, campLastID, subCursor,
                   apiVars, accepted, failed, manual, batches>>

\* a cleanup that returns without the deferred delete(tp.m.pipes, tp.camp.ID)
CleanupDeleteKeeps(p) ==
    /\ cpc[p] = "delete"
    /\ cpc' = [cpc EXCEPT ![p] = "gone"]
    /\ UNCHANGED <<env, gcfg, obsVars, adapterVars, mgrVars, loadFailed, slideVars, tmVars,
                   instVars, runVars, scanVars, workerVars, queueVars, pipes, nPipes,
                   pTenant, pCamp, wg, sent, lastID, errors, stopped, withErrors, storeVars,
                   apiVars, histVars>>

\* cleanup's deferred delete(tp.m.pipes, tp.camp.ID) under pipesMut.Lock()
CleanupDelete(p) ==
    /\ cpc[p] = "delete"
    /\ scanPc[pTenant[p]] \notin {"load", "reset"}
    /\ ~ApiReads(pTenant[p])
    /\ pipes' = [pipes EXCEPT ![pTenant[p]][pCamp[p]] = 0]
    /\ cpc' = [cpc EXCEPT ![p] = "gone"]
    /\ UNCHANGED <<env, gcfg, obsVars, adapterVars, mgrVars, loadFailed, slideVars, tmVars,
                   instVars, runVars, scanVars, workerVars, queueVars, nPipes, pTenant,
                   pCamp, wg, sent, lastID, errors, stopped, withErrors, storeVars, apiVars,
                   histVars>>

\* ------------------------------------------------------ StopTenantCampaign

\* a lookup by campaign id alone, in whichever instance has such a pipe
StopTargetAnyTenant(t, c) ==
    LET has == {u \in tenantManagers : pipes[u][c] # 0}
    IN IF has = {} THEN 0 ELSE pipes[CHOOSE u \in has : \A v \in has : u >= v][c]

\* the pipe StopTenantCampaign(t, c) reaches: tm.tenantManagers[t].pipes[c]
StopTarget(t, c) == IF t \in tenantManagers THEN pipes[t][c] ELSE 0

\* StopTenantCampaign -> StopCampaign -> tenantPipe.Stop(false), under the read
\* locks of the registries: if tp.stopped.Load() { return }
StopTenantCampaign(t, c) ==
    /\ t \in env.stop
    /\ apiPc = "idle"
    /\ tmMut = "free"
    /\ StopTarget(t, c) # 0
    /\ ~stopped[StopTarget(t, c)]
    /\ apiPipe' = StopTarget(t, c)
    /\ apiTenant' = t
    /\ apiPc' = "store"
    /\ UNCHANGED <<env, gcfg, obsVars, adapterVars, mgrVars, loadFailed, slideVars, tmVars,
                   instVars, runVars, scanVars, workerVars, queueVars, pipes, pipeVars,
                   storeVars, histVars>>

\* tenantPipe.Stop(false): tp.stopped.Store(true)
StopStore ==
    /\ apiPc = "store"
    /\ stopped' = [stopped EXCEPT ![apiPipe] = TRUE]
    /\ manual' = [manual EXCEPT ![apiPipe] = IF wg[apiPipe] > 0 THEN "early" ELSE "late"]
    /\ apiPc' = "idle"
    /\ apiPipe' = 0
    /\ apiTenant' = 0
    /\ UNCHANGED <<env, gcfg, obsVars, adapterVars, mgrVars, loadFailed, slideVars, tmVars,
                   instVars, runVars, scanVars, workerVars, queueVars, pipes, nPipes,
                   pTenant, pCamp, wg, sent, lastID, errors, withErrors, cpc, storeVars,
                   accepted, failed, statusLog, notifLog, batches>>

\* the operator pauses a running campaign: the Store's status of the campaign
\* changes while the engine works on it
OperatorPause(t, c) ==
    /\ env.pause
    /\ campStatus[t][c] = StatusRunning
    /\ campStatus' = [campStatus EXCEPT ![t][c] = StatusPaused]
    /\ UNCHANGED <<env, gcfg, obsVars, adapterVars, mgrVars, loadFailed, slideVars, tmVars,
                   instVars, runVars, scanVars, workerVars, queueVars, pipes, pipeVars,
                   campSent, campLastID, subCursor, apiVars, histVars>>

\* ------------------------------------------------- single-tenant Manager

\* everything but the Manager's own state
\* the tenant side but for the adapter's calls
tenantSideBut == <<env, gcfg, loadFailed, tmVars, instVars, runVars, scanVars, workerVars,
                   queueVars, pipes, pipeVars, storeVars, apiVars, histVars, slideVars,
                   obsVars>>

tenantSide == <<env, gcfg, loadFailed, tmVars, instVars, runVars, scanVars, workerVars,
                queueVars, pipes, pipeVars, storeVars, apiVars, histVars, slideVars,
                obsVars, adapterVars>>

\* a send on a closed channel panics and ends the process
Panicked == mRunPc = "panic" \/ mScanPc = "panic"

\* Manager.Run: go m.scanCampaigns, Concurrency times go m.worker, then the
\* range over m.nextPipes
MgrRun ==
    /\ mRunPc = "none"
    /\ mRunPc' = "select"
    /\ mScanPc' = IF gcfg.ScanCampaigns THEN "tick" ELSE "none"
    /\ mWpc' = [w \in Workers |-> IF w <= gcfg.Concurrency THEN "idle" ELSE "none"]
    /\ UNCHANGED <<tenantSide, mClosePc, mNextPipes, mNextClosed, mMsgQClosed, mCampMsgQ,
                   mPipe, mWg, mLeft, mBatch>>

\* Manager.Run: a pipe is received from m.nextPipes (a closed channel still hands
\* over what it holds) and its next batch is fetched; an empty batch ends
\* batching with p.wg.Done()
MgrFetch ==
    /\ ~Panicked
    /\ mRunPc = "select"
    /\ mNextPipes > 0
    /\ mNextPipes' = mNextPipes - 1
    /\ LET n == Min(gcfg.BatchSize, mLeft)
       IN /\ mLeft' = mLeft - n
          /\ mBatch' = n
          /\ mRunPc' = IF n = 0 THEN "select" ELSE "push"
          /\ mWg' = IF n = 0 THEN mWg - 1 ELSE mWg
    /\ UNCHANGED <<tenantSide, mScanPc, mWpc, mClosePc, mNextClosed, mMsgQClosed, mCampMsgQ,
                   mPipe>>

\* the pipe's NextSubscribers: a message of the batch is counted on the
\* wait-group and sent to m.campMsgQ, which blocks while the queue is full
MgrPush ==
    /\ ~Panicked
    /\ mRunPc = "push"
    /\ mCampMsgQ < gcfg.Concurrency * gcfg.MessageRate * 2
    /\ mCampMsgQ' = mCampMsgQ + 1
    /\ mWg' = mWg + 1
    /\ mBatch' = mBatch - 1
    /\ mRunPc' = IF mBatch = 1 THEN "resubmit" ELSE "push"
    /\ UNCHANGED <<tenantSide, mScanPc, mWpc, mClosePc, mNextPipes, mNextClosed,
                   mMsgQClosed, mPipe, mLeft>>

\* select { case m.nextPipes <- p: default: }: the send panics on a closed
\* channel and is skipped on a full one
trySend(pc) ==
    IF mNextClosed
    THEN <<"panic", mNextPipes>>
    ELSE <<pc, IF mNextPipes < NextPipesCap THEN mNextPipes + 1 ELSE mNextPipes>>

\* Manager.Run: the batch was not empty; the pipe is queued again
MgrResubmit ==
    /\ ~Panicked
    /\ mRunPc = "resubmit"
    /\ mRunPc' = trySend("select")[1]
    /\ mNextPipes' = trySend("select")[2]
    /\ UNCHANGED <<tenantSide, mScanPc, mWpc, mClosePc, mNextClosed, mMsgQClosed, mCampMsgQ,
                   mPipe, mWg, mLeft, mBatch>>

\* Manager.Run: the range over m.nextPipes ends on a closed and empty channel
MgrRunReturn ==
    /\ ~Panicked
    /\ mRunPc = "select"
    /\ mNextPipes = 0
    /\ mNextClosed
    /\ mRunPc' = "returned"
    /\ UNCHANGED <<tenantSide, mScanPc, mWpc, mClosePc, mNextPipes, mNextClosed,
                   mMsgQClosed, mCampMsgQ, mPipe, mWg, mLeft, mBatch>>

\* Manager.scanCampaigns: a tick; the running campaign has no pipe, so
\* NextCampaigns returns it and newPipe registers a pipe with wg = 1
MgrScanCreate ==
    /\ ~Panicked
    /\ mScanPc = "tick"
    /\ mPipe = "none"
    /\ mPipe' = "live"
    /\ mWg' = 1
    /\ mScanPc' = "submit"
    /\ UNCHANGED <<tenantSide, mRunPc, mWpc, mClosePc, mNextPipes, mNextClosed, mMsgQClosed,
                   mCampMsgQ, mLeft, mBatch>>

\* Manager.scanCampaigns: the new pipe is sent to m.nextPipes
MgrScanSubmit ==
    /\ ~Panicked
    /\ mScanPc = "submit"
    /\ mScanPc' = trySend("tick")[1]
    /\ mNextPipes' = trySend("tick")[2]
    /\ UNCHANGED <<tenantSide, mRunPc, mWpc, mClosePc, mNextClosed, mMsgQClosed, mCampMsgQ,
                   mPipe, mWg, mLeft, mBatch>>

\* Manager.worker: a message is received from m.campMsgQ
MgrWorkerDequeue(w) ==
    /\ ~Panicked
    /\ mWpc[w] = "idle"
    /\ mCampMsgQ > 0
    /\ mCampMsgQ' = mCampMsgQ - 1
    /\ mWpc' = [mWpc EXCEPT ![w] = "send"]
    /\ UNCHANGED <<tenantSide, mRunPc, mScanPc, mClosePc, mNextPipes, mNextClosed,
                   mMsgQClosed, mPipe, mWg, mLeft, mBatch>>

\* Manager.worker: the message goes to the messenger; msg.pipe.wg.Done()
MgrWorkerSend(w) ==
    /\ ~Panicked
    /\ mWpc[w] = "send"
    /\ mWg' = mWg - 1
    /\ mWpc' = [mWpc EXCEPT ![w] = "idle"]
    /\ UNCHANGED <<tenantSide, mRunPc, mScanPc, mClosePc, mNextPipes, mNextClosed,
                   mMsgQClosed, mCampMsgQ, mPipe, mLeft, mBatch>>

\* Manager.worker: the receive from the closed m.msgQ yields !ok: return
MgrWorkerExit(w) ==
    /\ ~Panicked
    /\ mWpc[w] = "idle"
    /\ mMsgQClosed
    /\ mWpc' = [mWpc EXCEPT ![w] = "exit"]
    /\ UNCHANGED <<tenantSide, mRunPc, mScanPc, mClosePc, mNextPipes, mNextClosed,
                   mMsgQClosed, mCampMsgQ, mPipe, mWg, mLeft, mBatch>>

\* the goroutine of newPipe: wg.Wait() returns, cleanup ends the campaign and
\* takes the pipe out of m.pipes
MgrCleanup ==
    /\ ~Panicked
    /\ mPipe = "live"
    /\ mWg = 0
    /\ mPipe' = "gone"
    /\ UNCHANGED <<tenantSide, mRunPc, mScanPc, mWpc, mClosePc, mNextPipes, mNextClosed,
                   mMsgQClosed, mCampMsgQ, mWg, mLeft, mBatch>>

\* Manager.Close, called once Run has started: close(m.nextPipes)
MgrCloseNextPipes ==
    /\ ~Panicked
    /\ env.close
    /\ mRunPc # "none"
    /\ mClosePc = "idle"
    /\ mNextClosed' = TRUE
    /\ mClosePc' = "msgQ"
    /\ UNCHANGED <<tenantSide, mRunPc, mScanPc, mWpc, mNextPipes, mMsgQClosed, mCampMsgQ,
                   mPipe, mWg, mLeft, mBatch>>

\* Manager.Close: close(m.msgQ)
MgrCloseMsgQ ==
    /\ ~Panicked
    /\ mClosePc = "msgQ"
    /\ mMsgQClosed' = TRUE
    /\ mClosePc' = "returned"
    /\ UNCHANGED <<tenantSide, mRunPc, mScanPc, mWpc, mNextPipes, mNextClosed, mCampMsgQ,
                   mPipe, mWg, mLeft, mBatch>>

\* ------------------------------------------------------- tenantStoreAdapter

\* NewFromTenantStore: defaultTenantID: 1
defaultTenantID == 1

\* a call of a TenantStore method: tenant is the tenant id argument, 0 for a
\* method of the embedded Store that has none
Call(op, tenant, args) == [op |-> op, tenant |-> tenant, args |-> args]

tsaNextCampaigns(currentIDs, sentCounts) ==
    Call("NextTenantCampaigns", defaultTenantID, <<currentIDs, sentCounts>>)

tsaNextSubscribers(campID, limit) ==
    Call("NextTenantSubscribers", defaultTenantID, <<campID, limit>>)

tsaGetCampaign(campID) == Call("GetTenantCampaign", defaultTenantID, <<campID>>)

tsaGetAttachment(mediaID) == Call("GetAttachment", 0, <<mediaID>>)

tsaUpdateCampaignStatus(campID, status) ==
    Call("UpdateTenantCampaignStatus", defaultTenantID, <<campID, status>>)

\* an adapter that hands sent and lastSubID over in the wrong order
tsaUpdateCampaignCountsSwapped(campID, toSend, nSent, lastSubID) ==
    Call("UpdateTenantCampaignCounts", defaultTenantID, <<campID, toSend, lastSubID, nSent>>)

tsaUpdateCampaignCounts(campID, toSend, nSent, lastSubID) ==
    Call("UpdateTenantCampaignCounts", defaultTenantID, <<campID, toSend, nSent, lastSubID>>)

tsaCreateLink(url) == Call("CreateTenantLink", defaultTenantID, <<url>>)

tsaBlocklistSubscriber(id) == Call("BlocklistTenantSubscriber", defaultTenantID, <<id>>)

tsaDeleteSubscriber(id) == Call("DeleteTenantSubscriber", defaultTenantID, <<id>>)

\* the argument lists of NextCampaigns: ids and counts of up to two campaigns
ArgLists ==
    {<<>>} \cup {<<a>> : a \in 0..ArgMax} \cup {<<a, b>> : a \in 0..ArgMax, b \in 0..ArgMax}

\* the Manager calls a method of its Store, which is the adapter: the call and
\* the TenantStore call it results in
Forwarded(op, args, call) ==
    /\ legacyCall' = [op |-> op, args |-> args]
    /\ tenantCall' = call
    /\ UNCHANGED <<tenantSideBut, mgrVars>>

AdapterCall ==
    \/ \E ids \in ArgLists, counts \in ArgLists :
          Forwarded("NextCampaigns", <<ids, counts>>, tsaNextCampaigns(ids, counts))
    \/ \E c \in Campaigns, n \in 0..ArgMax :
          Forwarded("NextSubscribers", <<c, n>>, tsaNextSubscribers(c, n))
    \/ \E c \in Campaigns : Forwarded("GetCampaign", <<c>>, tsaGetCampaign(c))
    \/ \E a \in 0..ArgMax : Forwarded("GetAttachment", <<a>>, tsaGetAttachment(a))
    \/ \E c \in Campaigns, st \in {StatusRunning, StatusPaused, StatusFinished} :
          Forwarded("UpdateCampaignStatus", <<c, st>>, tsaUpdateCampaignStatus(c, st))
    \/ \E c \in Campaigns, a \in 0..ArgMax, b \in 0..ArgMax, l \in 0..ArgMax :
          Forwarded("UpdateCampaignCounts", <<c, a, b, l>>,
                    tsaUpdateCampaignCounts(c, a, b, l))
    \/ \E u \in {"http://a", "http://b"} : Forwarded("CreateLink", <<u>>, tsaCreateLink(u))
    \/ \E id \in 0..ArgMax :
          Forwarded("BlocklistSubscriber", <<id>>, tsaBlocklistSubscriber(id))
    \/ \E id \in 0..ArgMax :
          Forwarded("DeleteSubscriber", <<id>>, tsaDeleteSubscriber(id))

\* ------------------------------------------------------------ specification

\* the engine's goroutines between start and shutdown, with a Store, templates
\* and a Messenger that never fail
RunStep(t) ==
    \/ RunStart(t)
    \/ RunFetch(t)
    \/ RunRender(t)
    \/ RunPush(t)
    \/ RunResubmit(t)

ScanStep(t) ==
    \/ ScanTick(t)
    \/ ScanLoad(t)
    \/ ScanReset(t)
    \/ ScanQuery(t)
    \/ ScanCreateCancel(t)
    \/ ScanCreate(t)

WorkerStep(t, w) ==
    \/ WorkerDequeue(t, w)
    \/ WorkerSendOk(t, w)
    \/ WorkerLastLoad(t, w)
    \/ WorkerLastStore(t, w)
    \/ WorkerSentAdd(t, w)

CleanupStep(p) ==
    \/ CleanupCounts(p)
    \/ CleanupWithErrors(p)
    \/ CleanupStopped(p)
    \/ CleanupNatural(p)
    \/ CleanupDelete(p)

EngineStep ==
    \/ \E t \in Tenants : RunStep(t)
    \/ \E t \in Tenants : ScanStep(t)
    \/ \E t \in Tenants, w \in Workers : WorkerStep(t, w)
    \/ \E p \in Pipes : CleanupStep(p)

\* the batch loop's sliding-window bookkeeping
WindowStep ==
    \/ \E t \in Tenants : RunSlide(t)
    \/ \E t \in Tenants : RunSlept(t)

\* a worker at its rate limit has slept a second
RateStep ==
    \E t \in Tenants, w \in Workers : WorkerWake(t, w)

\* a worker meets a pipe flagged stopped
StoppedStep ==
    \E t \in Tenants, w \in Workers : WorkerDiscard(t, w)

\* the Messenger rejects a message: the error path of the worker
SendFailStep(t, w) ==
    \/ WorkerSendFail(t, w)
    \/ WorkerOnError(t, w)
    \/ WorkerStopWithErrors(t, w)
    \/ WorkerStopStore(t, w)

\* the Store or a template fails
FaultStep ==
    \/ \E t \in Tenants : RunFetchError(t)
    \/ \E t \in Tenants : RunRenderError(t)
    \/ \E t \in Tenants : ScanQueryError(t)
    \/ \E t \in Tenants : ScanCreateError(t)
    \/ \E p \in Pipes : CleanupNaturalError(p)

\* a caller of TenantManager.StopTenantCampaign
ApiStep ==
    \/ \E t \in Tenants, c \in Campaigns : StopTenantCampaign(t, c)
    \/ StopStore

\* TenantManager.Close and the goroutines that react to it
ShutdownStep ==
    \/ CloseBegin
    \/ CloseLock
    \/ \E t \in Tenants : CloseStop(t)
    \/ \E t \in Tenants : CloseStopped(t)
    \/ CloseUnlock
    \/ CloseReturn
    \/ ManageShutdown
    \/ TMScanExit
    \/ \E t \in Tenants : RunStop(t)
    \/ \E t \in Tenants : ScanStop(t)
    \/ \E t \in Tenants, w \in Workers : WorkerExit(t, w)

Env(fail, storeErr, renderErr, stop, close, ids, subs) ==
    [fail |-> fail, storeErr |-> storeErr, renderErr |-> renderErr, stop |-> stop,
     close |-> close, ids |-> ids, subs |-> subs, camps |-> {1},
     pause |-> FALSE, notifErr |-> FALSE,
     settings |-> [t \in Tenants |-> NoSettings]]

Config(batch, conc, maxErr) ==
    [BatchSize |-> batch, Concurrency |-> conc, MessageRate |-> 1,
     MaxSendErrors |-> maxErr, ScanCampaigns |-> TRUE,
     SlidingWindow |-> FALSE, SlidingWindowRate |-> 0, SlidingWindowDuration |-> 0,
     FromEmail |-> "global@"]

\* Spec: one tenant's engine under delivery, render and Store failures and
\* manual stops, with a threshold of 1 or 2 errors.  The tenant manager is
\* started and never closed; its later discovery passes find nothing new.
Init ==
    \E T \in 1..2 :
        InitState(Env({1}, TRUE, TRUE, {1}, FALSE, {1}, NumSubs), Config(1, 2, T))

Next ==
    \/ TMRun
    \/ DiscoverQuery
    \/ DiscoverApply
    \/ TMAddMessenger
    \/ EngineStep
    \/ RateStep
    \/ \E t \in Tenants, w \in Workers : SendFailStep(t, w)
    \/ StoppedStep
    \/ FaultStep
    \/ ApiStep

Spec == Init /\ [][Next]_vars

\* SpecStop: one tenant's engine with two workers, a Messenger that may reject
\* any message, a threshold of 1 or 2 errors and manual stops; the Store and
\* the templates never fail.
InitStop ==
    \E T \in 1..2 :
        InitState(Env({1}, FALSE, FALSE, {1}, FALSE, {1}, NumSubs), Config(1, 2, T))

NextStop ==
    \/ TMRun
    \/ DiscoverQuery
    \/ DiscoverApply
    \/ TMAddMessenger
    \/ EngineStep
    \/ RateStep
    \/ \E t \in Tenants, w \in Workers : SendFailStep(t, w)
    \/ StoppedStep
    \/ ApiStep

SpecStop == InitStop /\ [][NextStop]_vars

\* SpecErrors: one tenant's engine with one worker, more subscribers than the
\* error threshold of 2, and a Messenger that may reject any message; nobody
\* stops the campaign and the Store and the templates never fail.
InitErrors ==
    InitState(Env({1}, FALSE, FALSE, {}, FALSE, {1}, RunSubs), Config(RunBatch, 1, 2))

NextErrors ==
    \/ TMRun
    \/ DiscoverQuery
    \/ DiscoverApply
    \/ TMAddMessenger
    \/ EngineStep
    \/ RateStep
    \/ \E t \in Tenants, w \in Workers : SendFailStep(t, w)
    \/ StoppedStep

SpecErrors == InitErrors /\ [][NextErrors]_vars

\* SpecRate: one tenant's engine with one worker and a message rate of
\* RateCeiling, more subscribers than the rate, and manual stops; nothing fails.
InitRate ==
    InitState(Env({}, FALSE, FALSE, {1}, FALSE, {1}, RunSubs),
              [Config(RunBatch, 1, 1) EXCEPT !.MessageRate = RateCeiling])

NextRate ==
    \/ TMRun
    \/ DiscoverQuery
    \/ DiscoverApply
    \/ TMAddMessenger
    \/ EngineStep
    \/ RateStep
    \/ StoppedStep
    \/ ApiStep

SpecRate == InitRate /\ [][NextRate]_vars

\* SpecRender: one tenant's engine with one worker and batches of RunBatch
\* subscribers, any of whose messages may fail to render; nothing else fails.
InitRender ==
    InitState(Env({}, FALSE, TRUE, {}, FALSE, {1}, RunSubs), Config(RunBatch, 1, 1))

NextRender ==
    \/ TMRun
    \/ DiscoverQuery
    \/ DiscoverApply
    \/ TMAddMessenger
    \/ EngineStep
    \/ RateStep
    \/ \E t \in Tenants : RunRenderError(t)

SpecRender == InitRender /\ [][NextRender]_vars

\* SpecConfig: the tenant manager creates the instance of a tenant whose
\* settings row holds any combination of absent, fractional and whole limits
\* and a from-address or none, over two global configurations.
SettingsRows ==
    [max_batch_size : 0..MaxHalves, max_concurrency : 0..MaxHalves,
     message_rate : 0..MaxHalves, max_send_errors : 0..MaxHalves,
     from_email : {Absent, "tenant@"}]

InitConfig ==
    \E st \in SettingsRows, n \in 1..2 :
        InitState([Env({}, FALSE, FALSE, {}, FALSE, {1}, 1)
                      EXCEPT !.settings = [t \in Tenants |-> st]],
                  Config(n, n, n))

NextConfig ==
    \/ TMRun
    \/ DiscoverQuery
    \/ DiscoverApply

SpecConfig == InitConfig /\ [][NextConfig]_vars

\* SpecAdapter: the Store calls of a Manager built by NewFromTenantStore, with
\* any arguments, as the tenantStoreAdapter passes them to the TenantStore.
InitAdapter ==
    InitState(Env({}, FALSE, FALSE, {}, FALSE, {1}, 1), Config(1, 1, 1))

SpecAdapter == InitAdapter /\ [][AdapterCall]_vars

\* SpecNotify: the engine of SpecErrors with a notification sink that may
\* return an error to any call.
InitNotify ==
    InitState([Env({1}, FALSE, FALSE, {}, FALSE, {1}, RunSubs) EXCEPT !.notifErr = TRUE],
              Config(RunBatch, 1, 2))

SpecNotify == InitNotify /\ [][NextErrors]_vars

\* SpecTeardown: the set of active tenants changes from one discovery pass to
\* the next, no campaign runs, and a caller of TenantManager.Close comes at any
\* moment after Run: instances are stopped by discovery, by Close, or by both.
\* AddMessenger is called at any moment, any number of times.
InitTeardown ==
    InitState([Env({}, TRUE, FALSE, {}, TRUE, Tenants, 1) EXCEPT !.camps = {}],
              Config(1, 2, 1))

NextTeardown ==
    \/ TMRun
    \/ DiscoverVary
    \/ DiscoverAdd
    \/ \E t \in Tenants : DiscoverStop(t)
    \/ \E t \in Tenants : DiscoverStopped(t)
    \/ DiscoverUnlock
    \/ ManageTick
    \/ TMAddMessenger
    \/ \E t \in Tenants : RunStart(t) \/ ScanTick(t) \/ ScanQuery(t)
    \/ ShutdownStep

SpecTeardown == InitTeardown /\ [][NextTeardown]_vars

\* SpecBlock: two tenants whose running campaign has no subscriber left, one
\* worker per instance, a caller of StopTenantCampaign for tenant 2 and a
\* caller of TenantManager.Close at any moment after Run; nothing fails.  The
\* instances' goroutines take any time to notice the stop signal.
InitBlock ==
    InitState(Env({}, FALSE, FALSE, {2}, TRUE, Tenants, 0), Config(1, 1, 1))

NextBlock ==
    \/ TMRun
    \/ DiscoverTenants
    \/ DiscoverApply
    \/ TMAddMessenger
    \/ \E t \in Tenants : RunStart(t) \/ RunFetch(t)
    \/ \E t \in Tenants : ScanStep(t)
    \/ \E p \in Pipes : CleanupStep(p)
    \/ ApiStep
    \/ ShutdownStep

SpecBlock == InitBlock /\ [][NextBlock]_vars

\* SpecClose: one tenant's engine with nothing failing, one worker and more
\* subscribers than campMsgQ holds, and a caller of TenantManager.Close at any
\* moment after Run; the discovery ticker keeps firing.
InitClose ==
    InitState(Env({}, FALSE, FALSE, {}, TRUE, {1}, CloseSubs), Config(1, 1, 1))

NextClose ==
    \/ TMRun
    \/ DiscoverQuery
    \/ DiscoverApply
    \/ ManageTick
    \/ TMAddMessenger
    \/ EngineStep
    \/ RateStep
    \/ ShutdownStep

SpecClose == InitClose /\ [][NextClose]_vars

\* SpecTenants: two tenants with one worker and one subscriber each, the same
\* campaign id on both.  Tenant 1's Messenger may reject and tenant 1's campaign
\* may be stopped by hand; nothing fails for tenant 2.
InitTenants ==
    InitState(Env({1}, FALSE, FALSE, {1}, FALSE, Tenants, 1), Config(1, 1, 1))

NextTenants ==
    \/ TMRun
    \/ DiscoverTenants
    \/ DiscoverApply
    \/ TMAddMessenger
    \/ EngineStep
    \/ \E t \in Tenants, w \in Workers : SendFailStep(t, w)
    \/ StoppedStep
    \/ ApiStep

SpecTenants == InitTenants /\ [][NextTenants]_vars

\* SpecQueue: one tenant with as many running campaigns as the Store knows, one
\* subscriber each and nothing failing, so that a scan creates more pipes than
\* nextPipes has room for.
InitQueue ==
    InitState([Env({}, FALSE, FALSE, {}, FALSE, {1}, 1) EXCEPT !.camps = Campaigns],
              Config(1, 1, 1))

NextQueue ==
    \/ TMRun
    \/ DiscoverQuery
    \/ DiscoverApply
    \/ TMAddMessenger
    \/ EngineStep
    \/ RateStep

SpecQueue == InitQueue /\ [][NextQueue]_vars

\* SpecRun: one tenant, one campaign whose subscribers do not fill a whole
\* number of batches, one worker, nothing failing and nobody stopping.
InitRun ==
    InitState(Env({}, FALSE, FALSE, {}, FALSE, {1}, RunSubs), Config(RunBatch, 1, 1))

NextRun ==
    \/ TMRun
    \/ DiscoverQuery
    \/ DiscoverApply
    \/ TMAddMessenger
    \/ EngineStep
    \/ RateStep

SpecRun == InitRun /\ [][NextRun]_vars

\* SpecPause: one tenant, one campaign of two subscribers, nothing failing, and an
\* operator who may pause the campaign in the Store at any moment.
InitPause ==
    InitState([Env({}, FALSE, FALSE, {}, FALSE, {1}, NumSubs) EXCEPT !.pause = TRUE],
              Config(1, 1, 1))

NextPause ==
    \/ TMRun
    \/ DiscoverQuery
    \/ DiscoverApply
    \/ TMAddMessenger
    \/ EngineStep
    \/ RateStep
    \/ \E t \in Tenants, c \in Campaigns : OperatorPause(t, c)

SpecPause == InitPause /\ [][NextPause]_vars

\* SpecWindow: SpecRun with the sliding window on and a clock.
InitWindow ==
    InitState(Env({}, FALSE, FALSE, {}, FALSE, {1}, RunSubs),
              [Config(RunBatch, 1, 1) EXCEPT !.SlidingWindow = TRUE,
                                             !.SlidingWindowRate = WindowRate,
                                             !.SlidingWindowDuration = WindowDuration])

NextWindow ==
    \/ TMRun
    \/ DiscoverQuery
    \/ DiscoverApply
    \/ TMAddMessenger
    \/ EngineStep
    \/ WindowStep
    \/ RateStep
    \/ Tick

SpecWindow == InitWindow /\ [][NextWindow]_vars

\* what an instance without campaigns does between its creation and its stop
IdleInstanceStep(t) ==
    \/ RunStart(t)
    \/ ScanTick(t)
    \/ ScanQuery(t)
    \/ RunStop(t)
    \/ ScanStop(t)
    \/ \E w \in Workers : WorkerExit(t, w)

\* SpecDiscover: the tenant manager over a tenants table whose active tenants
\* change from one discovery pass to the next and whose settings may fail to
\* load; no campaign is running, and Close is not called.
InitDiscover ==
    InitState([Env({}, TRUE, FALSE, {}, FALSE, Tenants, 1) EXCEPT !.camps = {}],
              Config(1, 2, 1))

NextDiscover ==
    \/ TMRun
    \/ DiscoverVary
    \/ DiscoverAdd
    \/ \E t \in Tenants : DiscoverStop(t)
    \/ \E t \in Tenants : DiscoverStopped(t)
    \/ DiscoverUnlock
    \/ ManageTick
    \/ \E t \in Tenants : IdleInstanceStep(t)

SpecDiscover == InitDiscover /\ [][NextDiscover]_vars

\* SpecManager: the single-tenant Manager with one worker, one campaign with
\* more subscribers than campMsgQ holds, nothing failing, and a caller of Close
\* at any moment after Run.
InitManager ==
    InitState(Env({}, FALSE, FALSE, {}, TRUE, {1}, CloseSubs), Config(1, 1, 1))

NextManager ==
    \/ MgrRun
    \/ MgrFetch
    \/ MgrPush
    \/ MgrResubmit
    \/ MgrRunReturn
    \/ MgrScanCreate
    \/ MgrScanSubmit
    \/ \E w \in Workers : MgrWorkerDequeue(w)
    \/ \E w \in Workers : MgrWorkerSend(w)
    \/ \E w \in Workers : MgrWorkerExit(w)
    \/ MgrCleanup
    \/ MgrCloseNextPipes
    \/ MgrCloseMsgQ

SpecManager == InitManager /\ [][NextManager]_vars

\* ------------------------------------------------------------- properties

Range(s) == {s[i] : i \in DOMAIN s}

RECURSIVE SumOver(_, _)
SumOver(f, S) ==
    IF S = {} THEN 0 ELSE LET x == CHOOSE y \in S : TRUE IN f[x] + SumOver(f, S \ {x})

\* the pipes ever created for campaign c of tenant t
PipesOf(t, c) == {p \in Pipes : pTenant[p] = t /\ pCamp[p] = c}

\* cleanup of the pipe has started and the pipe is still registered
Live(p) == cpc[p] \in {"wait", "withErrors", "stopped", "natural", "delete"}

\* messages of pipe p that were rendered and not yet sent, failed or discarded
InFlight(p) ==
    LET t == pTenant[p]
    IN Cardinality({i \in DOMAIN campMsgQ[t] : campMsgQ[t][i].pipe = p})
       + Cardinality({w \in Workers : wpc[t][w] \in {"sleep", "send"} /\ wmsg[t][w].pipe = p})
       + (IF runPc[t] = "push" /\ runPipe[t] = p THEN 1 ELSE 0)

\* the pipe is queued for a batch or a batch of it is being made
Batching(p) ==
    LET t == pTenant[p]
    IN \/ \E i \in DOMAIN nextPipes[t] : nextPipes[t][i] = p
       \/ runPipe[t] = p

\* C1: the watermark of a pipe never decreases: no step of a worker takes
\* lastID of any pipe below the value it holds.
C1_WatermarkMonotone == [][\A p \in Pipes : lastID'[p] >= lastID[p]]_vars

\* C2: a pipe with threshold T >= 1 whose delivery attempts all failed, T of them
\* or more, and that nobody stopped by hand, never gets the status finished
\* written, and once its cleanup is over the status written is paused and the
\* sink received the notification of the pause exactly once.
C2_ThresholdPauses ==
    \A p \in Pipes :
        (/\ pTenant[p] # 0
         /\ cfg[pTenant[p]].TenantMaxSendErrors >= 1
         /\ accepted[p] = 0
         /\ failed[p] >= cfg[pTenant[p]].TenantMaxSendErrors
         /\ manual[p] = "no")
        => /\ StatusFinished \notin Range(statusLog[p])
           /\ cpc[p] = "gone" => statusLog[p] = <<StatusPaused>> /\ notifLog[p] = <<StatusPaused>>

\* C3: a pipe that StopCampaign flagged before its wait-group reached zero and
\* that had fewer delivery failures than the threshold gets no status written by
\* cleanup and no notification.
C3_ManualStopSilent ==
    \A p \in Pipes :
        (/\ manual[p] = "early"
         /\ failed[p] < cfg[pTenant[p]].TenantMaxSendErrors)
        => statusLog[p] = <<>> /\ notifLog[p] = <<>>

C3_Witness ==
    \E p \in Pipes :
        /\ manual[p] = "early"
        /\ failed[p] < cfg[pTenant[p]].TenantMaxSendErrors
        /\ accepted[p] >= 1
        /\ cpc[p] = "gone"

\* C4: the wait-group of a pipe is one sentinel, held until batching ends, plus
\* one per message rendered and not yet sent, failed or discarded; it is never
\* negative; and cleanup starts only at zero, after which it stays at zero.
C4_WaitGroup ==
    \A p \in 1..nPipes :
        /\ wg[p] >= 0
        /\ wg[p] - InFlight(p) \in {0, 1}
        /\ Batching(p) => wg[p] - InFlight(p) = 1
        /\ cpc[p] # "wait" => wg[p] = 0 /\ InFlight(p) = 0 /\ ~Batching(p)

C4_Witness ==
    \E p \in Pipes :
        /\ cpc[p] = "gone"
        /\ accepted[p] >= 1
        /\ failed[p] >= 1

\* C5: a campaign of a tenant has at most one pipe that is created and not yet
\* deregistered, and every campaign with a registered pipe is in the ids the scan
\* hands to NextTenantCampaigns.
C5_OneLivePipe ==
    \A t \in Tenants, c \in Campaigns :
        /\ Cardinality({p \in PipesOf(t, c) : Live(p)}) <= 1
        /\ (scanPc[t] = "query" /\ pipes[t][c] # 0) => c \in scanIds[t]

C5_Witness ==
    \E t \in Tenants, c \in Campaigns :
        /\ Cardinality(PipesOf(t, c)) = 2
        /\ \E p \in PipesOf(t, c) : Live(p)
        /\ scanPc[t] = "query"
        /\ c \in scanIds[t]

\* every count of the campaign's pipes has been handed to the Store: cleanup has
\* reported for each pipe, no worker is between a delivery and sent.Add, and the
\* scan holds no delta
Settled(t, c) ==
    /\ PipesOf(t, c) # {}
    /\ \A p \in PipesOf(t, c) : cpc[p] # "wait"
    /\ \A w \in Workers : wpc[t][w] \notin {"lastLoad", "lastStore", "sentAdd"}
    /\ scanPc[t] \notin {"load", "reset", "query"}

\* C6: once every count of a campaign has been handed to the Store, the sum of
\* the deltas the Store received is the number of messages the Messenger
\* accepted for the campaign.
C6_DeltasAddUp ==
    \A t \in Tenants, c \in Campaigns :
        Settled(t, c) => campSent[t][c] = SumOver(accepted, PipesOf(t, c))

\* C7: a pipe flagged stopped whose cleanup has not started is still going to be
\* released: it is queued for a batch or in one, or its wait-group is held only by
\* messages that are queued or in a worker's hands.
C7_StoppedPipeDrains ==
    \A p \in Pipes :
        (stopped[p] /\ cpc[p] = "wait") => Batching(p) \/ wg[p] = InFlight(p)

\* everything instance t owns: its flags, goroutines, queues, registry, pipes,
\* and its campaigns in the Store
InstanceState(t) ==
    <<active[t], stopCh[t], chansClosed[t], stopPc[t], messengers[t], cfg[t],
      runPc[t], runPipe[t], runSubs[t],
      scanPc[t], scanTodo[t], scanTmp[t], scanIds[t], scanCounts[t], scanNew[t],
      wpc[t], wmsg[t], numMsg[t], campMsgQ[t], nextPipes[t], pipes[t],
      [p \in {q \in Pipes : pTenant[q] = t} |->
          <<pCamp[p], wg[p], sent[p], lastID[p], errors[p], stopped[p], withErrors[p],
            cpc[p], statusLog[p], notifLog[p]>>],
      campStatus[t], campSent[t], campLastID[t], subCursor[t]>>

\* a step of StopTenantCampaign(a, c), or of the error path of a pipe of tenant a
StopsOrFails(a) ==
    \/ apiPc = "idle" /\ apiPc' = "store" /\ apiTenant' = a
    \/ apiPc = "store" /\ apiPc' = "idle" /\ apiTenant = a
    \/ \E p \in Pipes :
          /\ pTenant[p] = a
          /\ errors'[p] # errors[p] \/ withErrors'[p] # withErrors[p] \/ stopped'[p] # stopped[p]

C9_CloseStopsAll ==
    closePc = "returned" => \A t \in tenantManagers : ThreadsDone(t)

\* a goroutine that stop() of instance t waits for can take a step, or stop()
\* itself can
CanProceed(t) ==
    \/ ENABLED RunStep(t)
    \/ ENABLED RunStop(t)
    \/ ENABLED ScanStep(t)
    \/ ENABLED ScanStop(t)
    \/ \E w \in Workers : ENABLED WorkerStep(t, w)
    \/ \E w \in Workers : ENABLED WorkerWake(t, w)
    \/ \E w \in Workers : ENABLED WorkerExit(t, w)
    \/ ENABLED CloseStopped(t)

\* C10: stop() of an instance is never stuck: while it waits for the instance's
\* goroutines, one of them can take a step towards its return or the wait is over.
C10_StopReturns ==
    \A t \in Tenants : stopPc[t] = "wait" => CanProceed(t)

\* the token of newTenantPipe is still on the wait-group of pipe p: batching has
\* not ended
HoldsToken(p) == cpc[p] = "wait" /\ wg[p] - InFlight(p) = 1

\* C11: a pipe whose batching has not ended is never left out of the batch
\* queue: after a batch fetch that the Store failed, as at any other time, it is
\* queued in nextPipes or the batch loop holds it, so that another fetch follows.
C11_FetchRetried ==
    \A p \in Pipes : HoldsToken(p) => Batching(p)

\* C17: the sent counter of a pipe never decreases: no step of a worker, of the
\* scan, of a stop or of cleanup takes it below the value it holds.
C17_SentMonotone == [][\A p \in Pipes : sent'[p] >= sent[p]]_vars

\* C16: the engine writes the terminal status of a run once: cleanup of a pipe
\* never writes two statuses, and a pipe that ended by the error threshold or by
\* natural completion, its cleanup over, has had one status written.
C16_TerminalOnce ==
    \A p \in Pipes :
        /\ Len(statusLog[p]) <= 1
        /\ (cpc[p] = "gone" /\ (withErrors[p] \/ ~stopped[p])) => Len(statusLog[p]) = 1

\* the scan of tenant t disposes of the due campaign c without a pipe
CreateFails(t, c) ==
    /\ scanPc[t] = "create"
    /\ c \in scanNew[t]
    /\ c \notin scanNew'[t]
    /\ pipes'[t][c] = 0

\* C13: when the construction of a due campaign's pipe fails, the campaign is
\* left cancelled in the Store with no pipe registered, so that no later scan
\* finds it due.
C13_FailedCreateCancels ==
    [][\A t \in Tenants, c \in Campaigns :
          CreateFails(t, c) => /\ campStatus'[t][c] = StatusCancelled
                               /\ c \notin NextTenantCampaigns(t, {})']_vars

\* C12: a running campaign none of whose subscribers has been fetched is within
\* reach of the batch loop: it has no pipe, so that the next scan finds it due,
\* or its pipe is queued in nextPipes or held by the batch loop.
C12_SkippedPickedUp ==
    \A t \in Tenants, c \in Campaigns :
        (campStatus[t][c] = StatusRunning /\ subCursor[t][c] = 0)
        => pipes[t][c] = 0 \/ Batching(pipes[t][c])

\* the sizes of the batches of n subscribers fetched b at a time: full batches,
\* then what is left
BatchSizes(n, b) ==
    [i \in 1..((n + b - 1) \div b) |-> IF i * b <= n THEN b ELSE n - (i - 1) * b]

\* C15: a pipe no delivery of which failed and that nobody stopped has, once its
\* cleanup is over and every count is with the Store, fetched ceil(N/B) batches
\* of B subscribers (the last one what is left), a sent count of N in the Store,
\* and the status finished.
C15_FullRun ==
    \A p \in Pipes :
        LET t == pTenant[p]
            c == pCamp[p]
        IN (cpc[p] = "gone" /\ failed[p] = 0 /\ manual[p] = "no" /\ Settled(t, c))
           => /\ batches[p] = BatchSizes(env.subs, cfg[t].TenantMaxBatchSize)
              /\ campSent[t][c] = env.subs
              /\ campStatus[t][c] = StatusFinished

\* cleanup of pipe p takes the step that follows the re-fetch of its campaign
EndsNaturally(p) == cpc[p] = "natural" /\ cpc'[p] = "delete"

\* C18: on natural completion cleanup writes the status finished and sends the
\* completion notification when the status it re-fetched is running, and for
\* any other status it writes nothing and sends nothing.
C18_FinishedIffRunning ==
    [][\A p \in Pipes :
          EndsNaturally(p)
          => IF campStatus[pTenant[p]][pCamp[p]] = StatusRunning
             THEN /\ statusLog'[p] = Append(statusLog[p], StatusFinished)
                  /\ notifLog'[p] = Append(notifLog[p], StatusFinished)
                  /\ campStatus'[pTenant[p]][pCamp[p]] = StatusFinished
             ELSE /\ statusLog'[p] = statusLog[p]
                  /\ notifLog'[p] = notifLog[p]
                  /\ campStatus' = campStatus]_vars

\* the pushes i..j of tenant t's batch loop fall within less than one window
WithinWindow(t, i, j) ==
    i <= j /\ pushLog[t][j] - pushLog[t][i] < cfg[t].SlidingWindowDuration

\* C14: with the sliding window on, the pushes the batch loop makes within any
\* span shorter than SlidingWindowDuration are no more than SlidingWindowRate
\* of one window plus, across a window boundary, the SlidingWindowRate of the
\* next.
C14_WindowCeiling ==
    \A t \in Tenants : \A i, j \in DOMAIN pushLog[t] :
        WithinWindow(t, i, j) => j - i + 1 <= 2 * cfg[t].SlidingWindowRate

\* the instance of tenant t is running: active, not told to stop, run() started
\* and not returned
Running(t) == active[t] /\ ~stopCh[t] /\ runPc[t] \notin {"none", "done"}

RunCanReturn ==
    \/ mRunPc = "returned"
    \/ ENABLED MgrFetch \/ ENABLED MgrPush \/ ENABLED MgrResubmit \/ ENABLED MgrRunReturn

\* C20: Manager.Close is an orderly shutdown: neither the scan nor the batch
\* loop ever sends on a queue Close has closed, and once Close has returned and
\* the workers have left their loops, Run() has returned or is on its way.
C20_OrderlyClose ==
    /\ ~Panicked
    /\ (mClosePc = "returned" /\ \A w \in Workers : mWpc[w] \in {"none", "exit"})
       => RunCanReturn

\* C21: once a Messenger has been registered with TenantManager.AddMessenger, no
\* scan of any tenant instance cancels a campaign for an unknown messenger
C21_RegisteredResolves ==
    [][registered =>
         \A t \in Tenants, c \in Campaigns :
            campStatus'[t][c] = StatusCancelled => campStatus[t][c] = StatusCancelled]_vars

\* tenantInstanceManager.HasRunningCampaigns: len(tim.pipes) > 0
InstanceHasRunningCampaigns(t) == \E c \in Campaigns : pipes[t][c] # 0

\* TenantManager.HasRunningCampaigns: some registered instance reports true
HasRunningCampaigns == \E t \in tenantManagers : InstanceHasRunningCampaigns(t)

\* the pipes created so far whose cleanup has not finished
Uncleaned == {p \in 1..nPipes : cpc[p] # "gone"}

Fetched(p) == SumOver(batches[p], DOMAIN batches[p])

\* C23: a step that takes a message of a pipe flagged stopped off campMsgQ
\* releases one wait-group count and leaves every worker where it was, with no
\* Messenger call; a worker goes on to a send only with a message whose pipe
\* was not flagged when it was taken
C23_StoppedDiscarded ==
    [][\A t \in Tenants :
         (campMsgQ[t] # <<>> /\ campMsgQ'[t] = Tail(campMsgQ[t]))
         => LET m == Head(campMsgQ[t])
            IN IF stopped[m.pipe]
               THEN /\ wpc'[t] = wpc[t]
                    /\ wmsg'[t] = wmsg[t]
                    /\ accepted' = accepted /\ failed' = failed
                    /\ wg'[m.pipe] = wg[m.pipe] - 1
               ELSE \E w \in Workers :
                       /\ wpc[t][w] = "idle" /\ wpc'[t][w] \in {"sleep", "send"}
                       /\ wmsg'[t][w] = m]_vars

\* a pipe flagged stopped has been cleaned up and fewer Messenger calls were
\* made for it than subscribers were fetched: messages of it were discarded
C23_Witness ==
    \E p \in 1..nPipes :
        /\ stopped[p]
        /\ cpc[p] = "gone"
        /\ \A w \in Workers : wpc[pTenant[p]][w] = "idle"
        /\ accepted[p] + failed[p] < Fetched(p)

\* C24: while the Store has not returned an empty batch for a pipe, its
\* wait-group is at least 1 and its cleanup is still waiting, whether or not
\* any of its messages is in flight; at zero the pipe is out of batching
C24_NoEarlyCleanup ==
    \A p \in 1..nPipes :
        /\ ~drained[p] => wg[p] >= 1 /\ cpc[p] = "wait"
        /\ wg[p] = 0 => drained[p] /\ ~Batching(p)

\* a pipe between two batches: every message enqueued so far has been sent,
\* subscribers remain, and only the sentinel holds the wait-group
C24_Witness ==
    \E p \in 1..nPipes :
        /\ accepted[p] >= 1
        /\ accepted[p] = Fetched(p)
        /\ InFlight(p) = 0
        /\ subCursor[pTenant[p]][pCamp[p]] < env.subs
        /\ wg[p] = 1
        /\ cpc[p] = "wait"

\* C25: when the batch loop has finished a batch that was not empty, the pipe is
\* back in nextPipes, whatever the queue held
C25_Resubmitted ==
    [][\A t \in Tenants :
         (runPc[t] = "resubmit" /\ runPc'[t] = "select")
         => runPipe[t] \in Range(nextPipes'[t])]_vars

\* cleanup of pipe p hands its counts to the Store in this step
Reports(p) == cpc[p] = "wait" /\ cpc'[p] = "withErrors"

\* C26: when no delivery of a pipe failed and nobody stopped it, every fetched
\* subscriber was accepted by the time the wait-group is zero, and the last_id
\* cleanup reports is the highest of them, the id the Store's cursor stands at
C26_FinalReport ==
    [][\A p \in 1..nPipes :
         (Reports(p) /\ failed[p] = 0 /\ ~stopped[p])
         => /\ accepted[p] = subCursor[pTenant[p]][pCamp[p]]
            /\ lastID[p] = subCursor[pTenant[p]][pCamp[p]]]_vars

\* C27: a pipe gets the with-errors flag only after as many delivery failures
\* in a row, with no accepted delivery between them, as the threshold asks for
C27_ConsecutiveFailures ==
    [][\A p \in 1..nPipes :
         (~withErrors[p] /\ withErrors'[p])
         => streak[p] >= cfg[pTenant[p]].TenantMaxSendErrors]_vars

\* C28: once a pipe is flagged stopped, no step changes its stopped flag or its
\* with-errors flag
C28_FlagsFrozen ==
    [][\A p \in 1..nPipes :
         stopped[p] => stopped'[p] /\ withErrors'[p] = withErrors[p]]_vars

\* C29: between two rate-limit sleeps a worker calls the Messenger for at most
\* TenantMessageRate campaign messages; it sleeps exactly when the ceiling is
\* reached and another message is to be sent; and its budget counts Messenger
\* calls only, never the messages discarded for stopped pipes
C29_RateCeiling ==
    \A t \in tenantManagers, w \in Workers :
        /\ slice[t][w] <= cfg[t].TenantMessageRate
        /\ wpc[t][w] = "sleep" => slice[t][w] = cfg[t].TenantMessageRate
        /\ numMsg[t][w] = slice[t][w] + (IF wpc[t][w] = "send" THEN 1 ELSE 0)

\* the worker has sent up to the ceiling, slept, and sent again: more accepted
\* messages than the ceiling, the last of them in a new slice
C29_Witness ==
    \E p \in 1..nPipes : \E w \in Workers :
        /\ accepted[p] > RateCeiling
        /\ slice[pTenant[p]][w] = 1
        /\ numMsg[pTenant[p]][w] = 1
        /\ wpc[pTenant[p]][w] = "idle"

\* the batch loop of tenant t skips the subscriber at the head of its batch
SkipsSubscriber(t) == runPc[t] = "render" /\ runSubs'[t] # runSubs[t]

\* C30: a subscriber whose message fails to render is skipped with the
\* wait-group and campMsgQ untouched, the rest of the batch stays to be
\* rendered, and after the last subscriber the pipe goes to resubmission as
\* after any non-empty batch; so batching goes on to the end of the list
C30_RenderSkips ==
    /\ [][\A t \in Tenants :
            SkipsSubscriber(t)
            => /\ wg' = wg
               /\ campMsgQ' = campMsgQ
               /\ runPipe'[t] = runPipe[t]
               /\ runSubs'[t] = Tail(runSubs[t])
               /\ runPc'[t] = IF Tail(runSubs[t]) = <<>> THEN "resubmit" ELSE "render"]_vars
    /\ [](\A p \in 1..nPipes :
            /\ accepted[p] + InFlight(p) <= Fetched(p)
            /\ drained[p] => subCursor[pTenant[p]][pCamp[p]] = env.subs)

\* a finished run in which one subscriber was skipped and all others, those of
\* the same batch included, were delivered
C30_Witness ==
    \E p \in 1..nPipes :
        /\ cpc[p] = "gone"
        /\ batches[p] = BatchSizes(env.subs, RunBatch)
        /\ accepted[p] = env.subs - 1
        /\ \A w \in Workers : wpc[pTenant[p]][w] \in {"none", "idle"}

\* the effective limit eff is the tenant's own setting (given in halves) when
\* that is present and positive, and the global value glob otherwise
OwnOrGlobal(own, eff, glob) == IF own > 0 THEN 2 * eff = own ELSE eff = glob

\* C31: each limit of an instance is the tenant's own setting when present and
\* positive and the global value otherwise, and its from-address is the
\* tenant's own when present and the global one otherwise
C31_EffectiveLimits ==
    \A t \in tenantManagers :
        LET st == env.settings[t]
        IN /\ OwnOrGlobal(st.max_batch_size, cfg[t].TenantMaxBatchSize, gcfg.BatchSize)
           /\ OwnOrGlobal(st.max_concurrency, cfg[t].TenantMaxConcurrency, gcfg.Concurrency)
           /\ OwnOrGlobal(st.message_rate, cfg[t].TenantMessageRate, gcfg.MessageRate)
           /\ OwnOrGlobal(st.max_send_errors, cfg[t].TenantMaxSendErrors, gcfg.MaxSendErrors)
           /\ cfg[t].TenantFromEmail =
                 IF st.from_email # Absent THEN st.from_email ELSE gcfg.FromEmail

\* the TenantStore method that stands for each tenant-scoped method of Store
TenantVariant ==
    [NextCampaigns |-> "NextTenantCampaigns", NextSubscribers |-> "NextTenantSubscribers",
     GetCampaign |-> "GetTenantCampaign", UpdateCampaignStatus |-> "UpdateTenantCampaignStatus",
     UpdateCampaignCounts |-> "UpdateTenantCampaignCounts", CreateLink |-> "CreateTenantLink",
     BlocklistSubscriber |-> "BlocklistTenantSubscriber",
     DeleteSubscriber |-> "DeleteTenantSubscriber"]

\* C32: each Store call of the single-tenant Manager that has a tenant variant
\* reaches the TenantStore as that variant, with the bound tenant id and the
\* same arguments in the same order
C32_AdapterForwards ==
    legacyCall.op \in DOMAIN TenantVariant
    => /\ tenantCall.op = TenantVariant[legacyCall.op]
       /\ tenantCall.tenant = defaultTenantID
       /\ tenantCall.args = legacyCall.args

\* a count update with three different numbers has gone through the adapter
C32_Witness ==
    /\ legacyCall = [op |-> "UpdateCampaignCounts", args |-> <<2, 0, 1, 2>>]
    /\ tenantCall.op = "UpdateTenantCampaignCounts"

\* cleanup of pipe p calls the notification sink in this step
SinkCalled(p) == Len(notifLog'[p]) = Len(notifLog[p]) + 1

\* the status cleanup of pipe p leaves with the Store: paused on its
\* with-errors branch; on its natural-completion branch finished for a running
\* campaign and the campaign's own status otherwise
StatusAfterCleanup(p) ==
    LET status == campStatus[pTenant[p]][pCamp[p]]
    IN IF cpc[p] = "withErrors" THEN StatusPaused
       ELSE IF status = StatusRunning THEN StatusFinished ELSE status

\* C33: the step of cleanup that calls the notification sink leaves the same
\* counts and the same status with the Store, and goes on to the
\* deregistration, whether the sink returns an error or not; a pipe whose
\* notification failed is deregistered at the end of its cleanup like any other
C33_NotifyNeverFatal ==
    /\ [][\A p \in 1..nPipes :
            SinkCalled(p)
            => /\ campStatus'[pTenant[p]][pCamp[p]] = StatusAfterCleanup(p)
               /\ campSent' = campSent
               /\ campLastID' = campLastID
               /\ cpc'[p] = "delete"]_vars
    /\ [](\A p \in 1..nPipes :
            notifErr[p] => /\ cpc[p] \in {"delete", "gone"}
                           /\ cpc[p] = "gone" => pipes[pTenant[p]][pCamp[p]] # p)

\* the sink failed for a finished campaign, which is marked finished and
\* deregistered all the same
C33_Witness ==
    \E p \in 1..nPipes :
        /\ notifErr[p]
        /\ cpc[p] = "gone"
        /\ campStatus[pTenant[p]][pCamp[p]] = StatusFinished
        /\ campSent[pTenant[p]][pCamp[p]] >= 1

\* stop() of instance a waits in wg.Wait() for a's goroutines, which have not all
\* returned
Stalled(a) == stopPc[a] = "wait" /\ ~ThreadsDone(a)

\* a caller is about to call StopTenantCampaign(b, c) on a registered pipe of b
\* that is not stopped yet
StopCallReady(b, c) ==
    /\ b \in env.stop
    /\ apiPc = "idle"
    /\ StopTarget(b, c) # 0
    /\ ~stopped[StopTarget(b, c)]

QueueDrained(t) == campMsgQ[t] = <<>>

\* cleanup of pipe p has passed UpdateTenantCampaignCounts
CountsReported(p) == cpc[p] \in {"withErrors", "stopped", "natural", "delete", "gone"}

\* C35: when TenantManager.Close has returned every instance has drained: no
\* message that was enqueued for a campaign is left in campMsgQ, and the cleanup
\* of every pipe that was created has run and reported its final counts to the
\* Store.
C35_CloseDrains ==
    closePc = "returned" =>
        /\ \A t \in Tenants : QueueDrained(t)
        /\ \A p \in 1..nPipes : CountsReported(p)

AddMessengerFails == \E u \in tenantManagers : messengers[u]

C38_RefetchFailure ==
    \A p \in Pipes :
        refetchFailed[p] =>
            LET t == pTenant[p]
                c == pCamp[p]
            IN /\ statusLog[p] = <<>>
               /\ notifLog[p] = <<>>
               /\ CountsReported(p)
               /\ cpc[p] \in {"delete", "gone"}
               /\ cpc[p] = "gone" => pipes[t][c] # p
               /\ (cpc[p] = "gone" /\ pipes[t][c] = 0 /\ campStatus[t][c] = StatusRunning)
                      => c \in NextTenantCampaigns(t, {d \in Campaigns : pipes[t][d] # 0})

\* after such a cleanup has returned a later scan has picked the campaign up
\* again: the registry holds a new pipe for it
C38_Witness ==
    \E p \in Pipes :
        /\ refetchFailed[p]
        /\ cpc[p] = "gone"
        /\ pipes[pTenant[p]][pCamp[p]] \notin {0, p}

====
